---- MODULE Spec2Model ----
(***************************************************************************)
(* A model of the reading-assistant browser extension: the content         *)
(* extractor (src/src/services/contentExtractor.ts) and the content script *)
(* that caches and serves its output (src/src/content/contentScript.ts).   *)
(*                                                                         *)
(* JavaScript strings are TLA+ strings; TLC evaluates Len, \o and SubSeq   *)
(* on them, so lengths, prefixes and concatenations are the real ones.     *)
(* An optional value (heading?: string) is <<>> when undefined and <<v>>   *)
(* when defined.                                                           *)
(***************************************************************************)
EXTENDS Integers, Sequences, FiniteSets, TLC

VARIABLES
    doc,        \* the document the extractor reads (DOM, metadata, rendering)
    href,       \* window.location.href
    arg,        \* the argument of the operation under check
    ret,        \* what the operation returned
    pc,         \* "ready" before the operation ran, "done" after; "script"
                \* while the content script runs
    \* The content script (contentScript.ts) and the service it uses:
    overlayVisible,         \* let overlayVisible
    overlayFrame,           \* let overlayFrame: None, or the iframe's style.display
                            \* and whether it is still attached to the document
    extractedPageContent,   \* let extractedPageContent: the cache, None when null
    lastProcessedUrl,       \* let lastProcessedUrl
    posted,                 \* messages posted to the iframe, not yet handled there
    apiKey,                 \* OpenAIService.apiKey, None when null
    storedKey,              \* chrome.storage.sync's openai_api_key, None when unset
    loadPending,            \* the constructor's storage read has not called back
    pendingSaves,           \* keys of the storage writes whose callback is due
    inflight,               \* fetch calls awaiting their response
    uncaught                \* the error that escaped a handler, None if none did

scriptVars ==
    <<overlayVisible, overlayFrame, extractedPageContent, lastProcessedUrl, posted,
      apiKey, storedKey, loadPending, pendingSaves, inflight, uncaught>>

vars == <<doc, href, arg, ret, pc, scriptVars>>

(***************************************************************************)
(* Optional values.                                                        *)
(***************************************************************************)
None == <<>>
Some(v) == <<v>>
IsSome(o) == Len(o) = 1
\* JavaScript truthiness of an optional string: defined and not "".
Truthy(o) == IsSome(o) /\ o[1] # ""

\* The content script is not part of the run: its state is that of a
\* script that never started, and no action touches it.
ScriptAbsent ==
    /\ overlayVisible = FALSE
    /\ overlayFrame = None
    /\ extractedPageContent = None
    /\ lastProcessedUrl = ""
    /\ posted = <<>>
    /\ apiKey = None
    /\ storedKey = None
    /\ loadPending = FALSE
    /\ uncaught = None
    /\ pendingSaves = <<>>
    /\ inflight = 0

Max(a, b) == IF a >= b THEN a ELSE b
Min(a, b) == IF a <= b THEN a ELSE b

(***************************************************************************)
(* Strings.                                                                *)
(***************************************************************************)
\* The characters /\s/ matches, among those the model's texts use.
Whitespace == {" ", "\n", "\t", "\r"}
IsWs(s, i) == SubSeq(s, i, i) \in Whitespace

\* s repeated n times.
RECURSIVE Repeat(_, _)
Repeat(s, n) ==
    IF n = 0 THEN ""
    ELSE IF n % 2 = 0 THEN LET h == Repeat(s, n \div 2) IN h \o h
    ELSE s \o Repeat(s, n - 1)

\* String.prototype.substring(0, n)
Substring0(s, n) == SubSeq(s, 1, Min(n, Len(s)))

RECURSIVE TrimStart(_)
TrimStart(s) ==
    IF s = "" THEN ""
    ELSE IF IsWs(s, 1) THEN TrimStart(SubSeq(s, 2, Len(s)))
    ELSE s

RECURSIVE TrimEnd(_)
TrimEnd(s) ==
    IF s = "" THEN ""
    ELSE IF IsWs(s, Len(s)) THEN TrimEnd(SubSeq(s, 1, Len(s) - 1))
    ELSE s

\* String.prototype.trim()
Trim(s) == TrimEnd(TrimStart(s))

\* text.split(/\s+/).length: one piece more than there are whitespace runs.
SplitCount(text) ==
    Cardinality({i \in 1..Len(text) :
                    IsWs(text, i) /\ (i = 1 \/ ~IsWs(text, i - 1))}) + 1

\* The number of empty strings in text.split(/\s+/): only the first and the
\* last piece can be empty (text begins or ends with whitespace, or is "").
SplitEmpty(text) ==
    IF text = "" THEN 1
    ELSE (IF IsWs(text, 1) THEN 1 ELSE 0) + (IF IsWs(text, Len(text)) THEN 1 ELSE 0)

\* A mutation of countWords: the empty pieces are not filtered out.
countWordsUnfiltered(text) == SplitCount(text)

\* text.split(/\s+/).filter(Boolean).length
countWords(text) == SplitCount(text) - SplitEmpty(text)

(***************************************************************************)
(* ContentSection and combineContentSections.                              *)
(***************************************************************************)
Section(heading, content, importance) ==
    [heading |-> heading, content |-> content, importance |-> importance]

\* The comparator of the sort, ascending order (a mutation of the code's).
compareImportanceAscending(a, b) == a.importance - b.importance

\* (a, b) => b.importance - a.importance
compareImportance(a, b) == b.importance - a.importance

\* Array.prototype.sort is stable (ECMAScript 2019; the extension is a
\* manifest-v3 extension, so it runs on engines that implement it): an
\* insertion sort that moves an element only past those that compare greater.
InsertSorted(sorted, x) ==
    LET k == CHOOSE j \in 0..Len(sorted) :
                /\ \A i \in (j + 1)..Len(sorted) : compareImportance(sorted[i], x) > 0
                /\ (j > 0 => compareImportance(sorted[j], x) <= 0)
    IN SubSeq(sorted, 1, k) \o <<x>> \o SubSeq(sorted, k + 1, Len(sorted))

RECURSIVE SortSections(_)
SortSections(s) ==
    IF s = <<>> THEN <<>>
    ELSE InsertSorted(SortSections(SubSeq(s, 1, Len(s) - 1)), s[Len(s)])

\* What the forEach of combineContentSections appends for one section.
RenderSection(section) ==
    (IF Truthy(section.heading) THEN "## " \o section.heading[1] \o " ##\n\n" ELSE "")
    \o section.content \o "\n\n"

RECURSIVE RenderAll(_)
RenderAll(s) ==
    IF s = <<>> THEN "" ELSE RenderSection(s[1]) \o RenderAll(SubSeq(s, 2, Len(s)))

combineContentSections(sections) == Trim(RenderAll(SortSections(sections)))

(***************************************************************************)
(* SpecCombine: combineContentSections applied to a bounded section list.  *)
(* The i-th input section holds the text "s<i>", so that its place in the  *)
(* output text can be read back.                                           *)
(***************************************************************************)
MaxSections == 4
Importances == {5, 7, 10}
Headings == {None, Some("H")}
Tag(i) == "s" \o ToString(i)

SectionLists ==
    UNION {
        {[i \in 1..n |-> Section(hs[i], Tag(i), imps[i])] :
            hs \in [1..n -> Headings], imps \in [1..n -> Importances]}
        : n \in 0..MaxSections}

NoDoc == [kind |-> "none"]

InitCombine ==
    /\ ScriptAbsent
    /\ arg \in SectionLists
    /\ ret = ""
    /\ pc = "ready"
    /\ doc = NoDoc
    /\ href = ""

Combine ==
    /\ pc = "ready"
    /\ ret' = combineContentSections(arg)
    /\ pc' = "done"
    /\ UNCHANGED <<arg, doc, href, scriptVars>>

NextCombine == Combine

SpecCombine == InitCombine /\ [][NextCombine]_vars

\* The first position at which sub occurs in s, 0 if none.
IndexOf(s, sub) ==
    LET hits == {i \in 1..(Len(s) - Len(sub) + 1) : SubSeq(s, i, i + Len(sub) - 1) = sub}
    IN IF hits = {} THEN 0 ELSE CHOOSE i \in hits : \A j \in hits : i <= j

\* C1: in the text combineContentSections returns, every input section
\* occurs, a section of higher importance occurs before every section of
\* lower importance, and two sections of equal importance occur in their
\* input order (the sort is by importance descending and stable).
C1_StableDescending ==
    pc = "done" =>
        \A i, j \in 1..Len(arg) :
            /\ IndexOf(ret, Tag(i)) > 0
            /\ arg[i].importance > arg[j].importance
                  => IndexOf(ret, Tag(i)) < IndexOf(ret, Tag(j))
            /\ (arg[i].importance = arg[j].importance /\ i < j)
                  => IndexOf(ret, Tag(i)) < IndexOf(ret, Tag(j))

\* A list whose order the sort must change and that holds a tie.
C1_Witness ==
    /\ pc = "done"
    /\ Len(arg) >= 3
    /\ \E i, j, k \in 1..Len(arg) :
          /\ i < j /\ j < k
          /\ arg[i].importance < arg[j].importance
          /\ arg[j].importance = arg[k].importance
          /\ IndexOf(ret, Tag(j)) < IndexOf(ret, Tag(k))
          /\ IndexOf(ret, Tag(k)) < IndexOf(ret, Tag(i))

(***************************************************************************)
(* ExtractedContent and formatContentForChatGPT.                           *)
(***************************************************************************)
Metadata(title, url, siteName, description) ==
    [title |-> title, url |-> url, siteName |-> siteName, description |-> description]

\* The tail of extractContent: mainContent is the combined sections and
\* wordCount is counted on mainContent.
ExtractedOf(metadata, sections) ==
    LET mainContent == combineContentSections(sections)
    IN [metadata |-> metadata,
        mainContent |-> mainContent,
        sections |-> sections,
        wordCount |-> countWords(mainContent)]

maxContentLength == 8000

\* Everything formatContentForChatGPT writes before mainContent.
FormatPreamble(ec) ==
    "PAGE INFORMATION:\n"
    \o "Title: " \o ec.metadata.title \o "\n"
    \o "URL: " \o ec.metadata.url \o "\n"
    \o (IF Truthy(ec.metadata.siteName)
        THEN "Site: " \o ec.metadata.siteName[1] \o "\n" ELSE "")
    \o (IF Truthy(ec.metadata.description)
        THEN "Description: " \o ec.metadata.description[1] \o "\n" ELSE "")
    \o "\n"
    \o "PAGE CONTENT (" \o ToString(ec.wordCount) \o " words):\n\n"

FormatUntruncated(ec) == FormatPreamble(ec) \o ec.mainContent

TruncationMarker(wordCount) ==
    "\n\n[Content truncated due to length. " \o ToString(wordCount)
    \o " total words on page]"

\* Mutations of the truncation: one that cuts one character early, one that
\* keeps the end of the text instead of its beginning.
TruncateEarly(formattedContent, wordCount) ==
    IF Len(formattedContent) >= maxContentLength
    THEN Substring0(formattedContent, maxContentLength - 1) \o TruncationMarker(wordCount)
    ELSE formattedContent

TruncateKeepingEnd(formattedContent, wordCount) ==
    IF Len(formattedContent) > maxContentLength
    THEN SubSeq(formattedContent, Len(formattedContent) - maxContentLength + 1,
                Len(formattedContent)) \o TruncationMarker(wordCount)
    ELSE formattedContent

Truncate(formattedContent, wordCount) ==
    IF Len(formattedContent) > maxContentLength
    THEN Substring0(formattedContent, maxContentLength) \o TruncationMarker(wordCount)
    ELSE formattedContent

formatContentForChatGPT(extractedContent) ==
    Truncate(FormatUntruncated(extractedContent), extractedContent.wordCount)

(***************************************************************************)
(* SpecFormat: formatContentForChatGPT applied to extraction results whose *)
(* metadata and content lengths lie on both sides of the 8,000 budget.     *)
(***************************************************************************)
\* Content lengths LongLow..LongLow+LongSpan straddle the budget for the
\* short preambles; the long title and descriptions fill it on their own.
LongSpan == 30
LongLow == maxContentLength - 105
FormatUrl == "https://a.test/p"
\* n characters of text: five-letter words, then a run of "x" to fill.
TextOfLength(n) == Repeat("word ", n \div 5) \o Repeat("x", n % 5)

\* The argument is the result of an extraction: mainContent and wordCount
\* are derived from a section, as extractContent derives them.
InitFormat ==
    /\ ScriptAbsent
    /\ arg \in {ExtractedOf(Metadata(t, FormatUrl, s, d), <<Section(None, c, 5)>>) :
                    t \in {"", "T", Repeat("t", maxContentLength + 100)},
                    s \in {None, Some(""), Some("S")},
                    d \in {None, Some("D"), Some(Repeat("d", maxContentLength - 70)),
                           Some(Repeat("d", maxContentLength + 100))},
                    c \in {"", "Body text.", TextOfLength(maxContentLength + 1000)}
                           \cup {TextOfLength(n) : n \in LongLow..(LongLow + LongSpan)}}
    /\ ret = ""
    /\ pc = "ready"
    /\ doc = NoDoc
    /\ href = FormatUrl

Format ==
    /\ pc = "ready"
    /\ ret' = formatContentForChatGPT(arg)
    /\ pc' = "done"
    /\ UNCHANGED <<arg, doc, href, scriptVars>>

NextFormat == Format

SpecFormat == InitFormat /\ [][NextFormat]_vars

IsPrefix(p, s) == Len(p) <= Len(s) /\ SubSeq(s, 1, Len(p)) = p

\* C3: the formatted string is at most 8,000 characters plus the marker
\* long; an untruncated text longer than 8,000 characters is returned as
\* its first 8,000 characters followed by exactly the marker, and one of
\* 8,000 characters or fewer is returned unchanged.
C3_TruncationBudget ==
    pc = "done" =>
        LET full == FormatUntruncated(arg)
            marker == "\n\n[Content truncated due to length. "
                      \o ToString(arg.wordCount) \o " total words on page]"
        IN /\ Len(ret) <= 8000 + Len(marker)
           /\ Len(full) > 8000 => ret = SubSeq(full, 1, 8000) \o marker
           /\ Len(full) <= 8000 => ret = full

\* An untruncated text of exactly 8,001 characters was truncated, and the
\* same spec also formats one of exactly 8,000 characters (the next witness).
C3_Witness ==
    /\ pc = "done"
    /\ Len(FormatUntruncated(arg)) = 8001
    /\ Len(ret) > 8000

\* C4 as stated: whenever the output is truncated, the whole preamble is a
\* prefix of the result, for any metadata values.
C4_PreambleAlwaysIntact ==
    (pc = "done" /\ Len(FormatUntruncated(arg)) > 8000)
        => IsPrefix(FormatPreamble(arg), ret)

\* C4 amended: when the output is truncated and the preamble is itself at
\* most 8,000 characters long, the whole preamble is a prefix of the result
\* (only characters of mainContent are dropped); a longer preamble is cut at
\* 8,000 characters like any other text.
C4_PreambleIntactWithinBudget ==
    (pc = "done" /\ Len(FormatUntruncated(arg)) > 8000) =>
        LET preamble == FormatPreamble(arg)
        IN /\ Len(preamble) <= 8000 =>
                /\ IsPrefix(preamble, ret)
                /\ IsPrefix(SubSeq(ret, Len(preamble) + 1, 8000), arg.mainContent)
           /\ Len(preamble) > 8000 => SubSeq(ret, 1, 8000) = SubSeq(preamble, 1, 8000)

\* A truncated output whose preamble carries a site name and a description
\* and is kept whole, part of mainContent following it.
C4_Witness ==
    /\ pc = "done"
    /\ Len(FormatUntruncated(arg)) > 8000
    /\ Truthy(arg.metadata.siteName) /\ Truthy(arg.metadata.description)
    /\ Len(FormatPreamble(arg)) < 8000
    /\ IsPrefix(FormatPreamble(arg), ret)

(***************************************************************************)
(* The DOM.  A node is a text node (tagName "#text", its characters in     *)
(* text) or an element (tagName upper case as in an HTML document, the     *)
(* class and id selectors it satisfies in sel, its child nodes in kids).   *)
(***************************************************************************)
Txt(text) == [tagName |-> "#text", sel |-> {}, text |-> text, kids |-> <<>>]
El(tagName, sel, kids) == [tagName |-> tagName, sel |-> sel, text |-> "", kids |-> kids]
IsElement(n) == n.tagName # "#text"

\* Node.textContent: the text of all descendant text nodes, in document order.
RECURSIVE TextContent(_)
RECURSIVE TextContentOfAll(_)
TextContent(n) == IF IsElement(n) THEN TextContentOfAll(n.kids) ELSE n.text
TextContentOfAll(nodes) ==
    IF nodes = <<>> THEN ""
    ELSE TextContent(nodes[1]) \o TextContentOfAll(SubSeq(nodes, 2, Len(nodes)))

\* The element children among nodes.
ElementsOf(nodes) == SelectSeq(nodes, IsElement)

\* The descendant elements of a node whose children are nodes, in document
\* order.  Each comes with the element siblings that follow it (what a walk
\* over nextElementSibling visits).
RECURSIVE DescendantsOfAll(_)
DescendantsOfAll(nodes) ==
    LET els == ElementsOf(nodes)
    IN IF els = <<>> THEN <<>>
       ELSE <<[node |-> els[1], following |-> SubSeq(els, 2, Len(els))]>>
            \o DescendantsOfAll(els[1].kids)
            \o DescendantsOfAll(SubSeq(els, 2, Len(els)))

Descendants(n) == DescendantsOfAll(n.kids)

\* The tagName a type selector of the code matches.
TagOfSelector(selector) ==
    CASE selector = "article" -> "ARTICLE" [] selector = "main" -> "MAIN"
      [] selector = "section" -> "SECTION" [] selector = "nav" -> "NAV"
      [] selector = "header" -> "HEADER" [] selector = "footer" -> "FOOTER"
      [] selector = "h1" -> "H1" [] selector = "h2" -> "H2" [] selector = "h3" -> "H3"
      [] selector = "h4" -> "H4" [] selector = "h5" -> "H5" [] selector = "h6" -> "H6"
      [] selector = "p" -> "P" [] selector = "ul" -> "UL" [] selector = "ol" -> "OL"
      [] selector = "li" -> "LI"

\* Element.matches for the simple selectors the generic extractor uses:
\* a class (".post") or id ("#content") selector, or a type selector.
Matches(n, selector) ==
    IF SubSeq(selector, 1, 1) \in {".", "#"}
    THEN selector \in n.sel
    ELSE n.tagName = TagOfSelector(selector)

\* element.querySelectorAll(selectors.join(", ")), as handles in document order.
QuerySelectorAll(n, selectors) ==
    SelectSeq(Descendants(n), LAMBDA h : \E i \in 1..Len(selectors) : Matches(h.node, selectors[i]))

\* parseInt of a string of decimal digits.
DigitValue(c) ==
    CASE c = "0" -> 0 [] c = "1" -> 1 [] c = "2" -> 2 [] c = "3" -> 3 [] c = "4" -> 4
      [] c = "5" -> 5 [] c = "6" -> 6 [] c = "7" -> 7 [] c = "8" -> 8 [] c = "9" -> 9
RECURSIVE ParseInt(_)
ParseInt(s) ==
    IF Len(s) = 1 THEN DigitValue(s)
    ELSE 10 * ParseInt(SubSeq(s, 1, Len(s) - 1)) + DigitValue(SubSeq(s, Len(s), Len(s)))

\* tagName.match(/^H[1-6]$/i)
IsHeadingTag(tagName) == tagName \in {"H1", "H2", "H3", "H4", "H5", "H6"}

(***************************************************************************)
(* processContentElement.                                                  *)
(***************************************************************************)
\* A mutation of the heading importance: the scale shifted by one.
HeadingImportanceShifted(tagName) == Max(10 - ParseInt(SubSeq(tagName, 2, Len(tagName))), 5)

\* A mutation of the heading importance: the level added, not subtracted.
HeadingImportanceRising(tagName) == Max(11 + ParseInt(SubSeq(tagName, 2, Len(tagName))), 5)

\* headingLevel = parseInt(tagName.substring(1)); Math.max(11 - headingLevel, 5)
HeadingImportance(tagName) == Max(11 - ParseInt(SubSeq(tagName, 2, Len(tagName))), 5)

\* A mutation of the sibling walk: it does not stop at the next heading.
RECURSIVE FollowingTextThrough(_)
FollowingTextThrough(following) ==
    IF following = <<>> THEN ""
    ELSE (IF Trim(TextContent(following[1])) # ""
          THEN Trim(TextContent(following[1])) \o " " ELSE "")
         \o FollowingTextThrough(SubSeq(following, 2, Len(following)))

\* The while loop over nextElementSibling: the trimmed text of each following
\* element sibling with text, each followed by a space, up to the next heading.
RECURSIVE FollowingText(_)
FollowingText(following) ==
    IF following = <<>> \/ IsHeadingTag(following[1].tagName) THEN ""
    ELSE (IF Trim(TextContent(following[1])) # ""
          THEN Trim(TextContent(following[1])) \o " " ELSE "")
         \o FollowingText(SubSeq(following, 2, Len(following)))

\* The sections the headings.forEach callback pushes for one heading (0 or 1).
HeadingSections(h) ==
    LET headingText == Trim(TextContent(h.node))
        contentText == FollowingText(h.following)
    IN IF headingText # "" \/ contentText # ""
       THEN <<Section(IF headingText # "" THEN Some(headingText) ELSE None,
                      Trim(contentText),
                      HeadingImportance(h.node.tagName))>>
       ELSE <<>>

RECURSIVE AllHeadingSections(_)
AllHeadingSections(headings) ==
    IF headings = <<>> THEN <<>>
    ELSE HeadingSections(headings[1]) \o AllHeadingSections(SubSeq(headings, 2, Len(headings)))

\* paragraphs.forEach: the trimmed text of each non-empty paragraph and a space.
RECURSIVE ParagraphText(_)
ParagraphText(paragraphs) ==
    IF paragraphs = <<>> THEN ""
    ELSE (IF Trim(TextContent(paragraphs[1].node)) # ""
          THEN Trim(TextContent(paragraphs[1].node)) \o " " ELSE "")
         \o ParagraphText(SubSeq(paragraphs, 2, Len(paragraphs)))

\* A mutation of the primary branches: the paragraphs are also collected
\* under a root that has headings.
PrimaryBranchSectionsWithParagraphs(element) ==
    LET headings == QuerySelectorAll(element, <<"h1", "h2", "h3", "h4", "h5", "h6">>)
        paragraphs == QuerySelectorAll(element, <<"p">>)
        content == Trim(TextContent(element))
    IN (IF Len(headings) > 0 THEN AllHeadingSections(headings) ELSE <<>>)
       \o (IF Len(paragraphs) > 0
           THEN (IF ParagraphText(paragraphs) # ""
                 THEN <<Section(None, Trim(ParagraphText(paragraphs)), 7)>> ELSE <<>>)
           ELSE IF Len(headings) = 0 /\ content # "" THEN <<Section(None, content, 5)>>
           ELSE <<>>)

\* The headings / paragraphs / full-text part of processContentElement.
PrimaryBranchSections(element) ==
    LET headings == QuerySelectorAll(element, <<"h1", "h2", "h3", "h4", "h5", "h6">>)
        paragraphs == QuerySelectorAll(element, <<"p">>)
        content == Trim(TextContent(element))
    IN IF Len(headings) > 0 THEN AllHeadingSections(headings)
       ELSE IF Len(paragraphs) > 0
            THEN (IF ParagraphText(paragraphs) # ""
                  THEN <<Section(None, Trim(ParagraphText(paragraphs)), 7)>> ELSE <<>>)
       ELSE IF content # "" THEN <<Section(None, content, 5)>> ELSE <<>>

\* A mutation of the list text: the items with text are numbered 1, 2, ...
\* among themselves.
ListTextRenumbered(items, i) ==
    LET HasText(j) == Trim(TextContent(items[j].node)) # ""
        shown == SelectSeq([j \in 1..Len(items) |-> j], HasText)
        line(k) == ToString(k) \o ". " \o Trim(TextContent(items[shown[k]].node)) \o "\n"
        from[k \in 1..(Len(shown) + 1)] ==
            IF k > Len(shown) THEN "" ELSE line(k) \o from[k + 1]
    IN from[i]

\* listItems.forEach: "{index + 1}. {itemText}\n" for each item with text;
\* items is the whole item list, i the 1-based position reached.
RECURSIVE ListText(_, _)
ListText(items, i) ==
    IF i > Len(items) THEN ""
    ELSE (IF Trim(TextContent(items[i].node)) # ""
          THEN ToString(i) \o ". " \o Trim(TextContent(items[i].node)) \o "\n" ELSE "")
         \o ListText(items, i + 1)

\* lists.forEach: one section per list that has an item with text.
RECURSIVE ListSections(_)
ListSections(lists) ==
    IF lists = <<>> THEN <<>>
    ELSE LET listText == ListText(QuerySelectorAll(lists[1].node, <<"li">>), 1)
         IN (IF listText # "" THEN <<Section(None, Trim(listText), 6)>> ELSE <<>>)
            \o ListSections(SubSeq(lists, 2, Len(lists)))

\* The sections processContentElement(element, sections) pushes.
processContentElement(element) ==
    PrimaryBranchSections(element)
    \o ListSections(QuerySelectorAll(element, <<"ul", "ol">>))

(***************************************************************************)
(* The document, extractMetadata and extractContentSections.               *)
(*                                                                         *)
(* doc.body is the BODY element; doc.innerText is document.body.innerText, *)
(* which the browser computes from the rendering; doc.title and doc.meta   *)
(* are the title and the content attributes of the four meta tags read;    *)
(* doc.gmail holds what the web-mail selectors match (see below).          *)
(***************************************************************************)
Includes(s, sub) == IndexOf(s, sub) > 0

\* new URL(url).hostname / window.location.hostname, for scheme://host/path.
Hostname(url) ==
    LET rest == SubSeq(url, IndexOf(url, "://") + 3, Len(url))
        slash == IndexOf(rest, "/")
    IN IF slash = 0 THEN rest ELSE SubSeq(rest, 1, slash - 1)

\* a || b for optional strings: a when truthy, else b.
OrElse(a, b) == IF Truthy(a) THEN a ELSE b

\* A mutation of extractMetadata: the application-name tag is asked before
\* the og:site_name tag, and an empty description is kept.
extractMetadataNameFirst(d, url) ==
    LET siteName == OrElse(d.meta.applicationName,
                           OrElse(d.meta.ogSiteName, Some(Hostname(url))))
        description == OrElse(d.meta.description, OrElse(d.meta.ogDescription, Some("")))
    IN Metadata(d.title, url, siteName, description)

extractMetadata(d, url) ==
    LET siteName == OrElse(d.meta.ogSiteName,
                           OrElse(d.meta.applicationName, Some(Hostname(url))))
        description == OrElse(d.meta.description, OrElse(d.meta.ogDescription, Some("")))
    IN Metadata(d.title, url, siteName,
                IF Truthy(description) THEN description ELSE None)

contentSelectors ==
    <<"article", "main", ".main-content", "#content", ".article", ".post",
      ".entry-content", ".content", "#main", "section">>

excludeSelectors ==
    <<"nav", "header", "footer", ".nav", ".navigation", ".menu", ".footer", ".sidebar",
      ".comments", ".ad", ".advertisement", ".social", ".related", "#sidebar">>

\* The document node: querySelectorAll on it sees body and its descendants.
DocumentNode(d) == El("#document", {}, <<d.body>>)

\* The for loop over contentSelectors: the matches of the first selector
\* that matches anything, none if no selector matches.
RECURSIVE FirstMatches(_, _, _)
FirstMatches(d, selectors, i) ==
    IF i > Len(selectors) THEN <<>>
    ELSE LET elements == QuerySelectorAll(DocumentNode(d), <<selectors[i]>>)
         IN IF Len(elements) > 0 THEN elements ELSE FirstMatches(d, selectors, i + 1)

\* nodes without the elements (at any depth) an exclude selector matches.
RECURSIVE WithoutExcluded(_)
WithoutExcluded(nodes) ==
    IF nodes = <<>> THEN <<>>
    ELSE LET n == nodes[1]
             rest == WithoutExcluded(SubSeq(nodes, 2, Len(nodes)))
         IN IF IsElement(n) /\ \E i \in 1..Len(excludeSelectors) : Matches(n, excludeSelectors[i])
            THEN rest
            ELSE IF IsElement(n)
                 THEN <<El(n.tagName, n.sel, WithoutExcluded(n.kids))>> \o rest
                 ELSE <<n>> \o rest

\* tempDiv: a new DIV whose content is a copy of body's, minus the excluded.
TempDiv(d) == El("DIV", {}, WithoutExcluded(d.body.kids))

RECURSIVE ProcessAll(_)
ProcessAll(elements) ==
    IF elements = <<>> THEN <<>>
    ELSE processContentElement(elements[1].node)
         \o ProcessAll(SubSeq(elements, 2, Len(elements)))

\* extractContentSections up to the low-content check: the sections of the
\* main content containers, or of the pruned copy of body.
PrimarySections(d) ==
    LET mainContentElements == FirstMatches(d, contentSelectors, 1)
    IN IF Len(mainContentElements) > 0
       THEN ProcessAll(mainContentElements)
       ELSE processContentElement(TempDiv(d))

minWords == 100

\* The whole-page section both extractors fall back to.
WholePageSection(d) == Section(None, d.innerText, 5)

\* A mutation of extractContentSections: the fallback replaces the sections.
extractContentSectionsReplacing(d) ==
    LET sections == PrimarySections(d)
    IN IF countWords(combineContentSections(sections)) < minWords
       THEN <<WholePageSection(d)>>
       ELSE sections

extractContentSections(d) ==
    LET sections == PrimarySections(d)
    IN IF countWords(combineContentSections(sections)) < minWords
       THEN sections \o <<WholePageSection(d)>>
       ELSE sections

(***************************************************************************)
(* extractGmailContent.  doc.gmail holds what the DOM queries of the       *)
(* method return on the page:                                              *)
(*   subjects   textContent of each subject element (line 73)              *)
(*   bodiesA    [text, sender] per match of selector set A (line 87);      *)
(*              sender is the textContent of the [email] element of the    *)
(*              enclosing message, None if there is no such element        *)
(*   bodiesB    the same for selector set B (line 102)                     *)
(*   listItems  [text, offsetHeight, offsetWidth] per list item (line 118) *)
(*   main       textContent of the [role="main"] element, None if absent   *)
(*   rows       [sender, subject, snippet] per tr[role="row"], each the    *)
(*              textContent of the cell element, None if absent            *)
(*   throwAt    [site, n]: the DOM call that throws, if any: the query of  *)
(*              that site, or the n-th iteration of that site's loop       *)
(***************************************************************************)
NoThrow == [site |-> "none", n |-> 0]

\* x?.textContent?.trim() || fallback
TrimmedOr(o, fallback) == IF IsSome(o) /\ Trim(o[1]) # "" THEN Trim(o[1]) ELSE fallback

\* A step of the try block: the sections so far, and whether a call threw.
Step(sections, threw) == [sections |-> sections, threw |-> threw]

GmailSubject(g) ==
    IF g.throwAt.site = "subject" THEN Step(<<>>, TRUE)
    ELSE IF Len(g.subjects) > 0
         THEN Step(<<Section(Some("Subject"), TrimmedOr(Some(g.subjects[1]), "Email"), 10)>>,
                   FALSE)
         ELSE Step(<<>>, FALSE)

\* The sections forEach pushes for message bodies 1..upTo (methods 1 and 2).
RECURSIVE BodySections(_, _)
BodySections(bodies, upTo) ==
    IF upTo = 0 THEN <<>>
    ELSE BodySections(bodies, upTo - 1)
         \o <<Section(Some("Email from " \o TrimmedOr(bodies[upTo].sender,
                                                      "Sender " \o ToString(upTo))),
                      Trim(bodies[upTo].text), 9)>>

\* A forEach over bodies in which the sender lookup of iteration
\* throwAt.n throws when throwAt.site = site.
BodyLoop(g, bodies, site) ==
    IF g.throwAt.site = site /\ g.throwAt.n <= Len(bodies)
    THEN Step(BodySections(bodies, g.throwAt.n - 1), TRUE)
    ELSE Step(BodySections(bodies, Len(bodies)), FALSE)

\* Method 3's filter: rendered (non-zero box) and with text.
IsVisibleWithText(item) ==
    item.offsetHeight > 0 /\ item.offsetWidth > 0 /\ Trim(item.text) # ""

RECURSIVE ItemSections(_, _)
ItemSections(items, upTo) ==
    IF upTo = 0 THEN <<>>
    ELSE ItemSections(items, upTo - 1)
         \o <<Section(Some("Email Content " \o ToString(upTo)), Trim(items[upTo].text), 8)>>

\* A mutation of methods 1 to 3: selector set B is also asked when set A
\* matched.
GmailBodiesBoth(g) ==
    IF Len(g.bodiesA) > 0 /\ Len(g.bodiesB) > 0
    THEN Step(BodySections(g.bodiesA, Len(g.bodiesA))
              \o BodySections(g.bodiesB, Len(g.bodiesB)), FALSE)
    ELSE IF Len(g.bodiesA) > 0 THEN BodyLoop(g, g.bodiesA, "senderA")
    ELSE IF Len(g.bodiesB) > 0 THEN BodyLoop(g, g.bodiesB, "senderB")
    ELSE Step(<<>>, FALSE)

\* Methods 1, 2 and 3 (lines 85-134).
GmailBodies(g) ==
    IF g.throwAt.site = "bodiesA" THEN Step(<<>>, TRUE)
    ELSE IF Len(g.bodiesA) > 0 THEN BodyLoop(g, g.bodiesA, "senderA")
    ELSE IF g.throwAt.site = "bodiesB" THEN Step(<<>>, TRUE)
    ELSE IF Len(g.bodiesB) > 0 THEN BodyLoop(g, g.bodiesB, "senderB")
    ELSE IF g.throwAt.site = "listItems" THEN Step(<<>>, TRUE)
    ELSE LET visibleEmailContent == SelectSeq(g.listItems, IsVisibleWithText)
         IN Step(ItemSections(visibleEmailContent, Len(visibleEmailContent)), FALSE)

\* Lines 136-146, given the number of sections pushed so far.
GmailMain(g, pushed) ==
    IF pushed <= 1
    THEN IF g.throwAt.site = "main" THEN Step(<<>>, TRUE)
         ELSE IF IsSome(g.main)
              THEN Step(<<Section(Some("Email Content"), Trim(g.main[1]), 7)>>, FALSE)
              ELSE Step(<<>>, FALSE)
    ELSE Step(<<>>, FALSE)

inboxMinRows == 5
inboxMaxRows == 20

\* What one iteration of emailListItems.forEach appends for row index i.
InboxLine(row, i) ==
    LET sender == TrimmedOr(row.sender, "")
        subject == TrimmedOr(row.subject, "")
        snippet == TrimmedOr(row.snippet, "")
    IN IF sender # "" /\ subject # ""
       THEN ToString(i) \o ". From: " \o sender \o " - Subject: " \o subject
            \o (IF snippet # "" THEN " - " \o snippet ELSE "") \o "\n"
       ELSE ""

\* A mutation of the row loop: no cap on the rows listed.
RECURSIVE InboxTextUncapped(_, _)
InboxTextUncapped(rows, i) ==
    IF i > Len(rows) THEN ""
    ELSE InboxLine(rows[i], i) \o InboxTextUncapped(rows, i + 1)

\* emailListItems.forEach from 1-based position i on: rows past the
\* twentieth are visited and skipped.
RECURSIVE InboxText(_, _)
InboxText(rows, i) ==
    IF i > Len(rows) THEN ""
    ELSE (IF i - 1 < inboxMaxRows THEN InboxLine(rows[i], i) ELSE "")
         \o InboxText(rows, i + 1)

\* Lines 148-176.
GmailInbox(g) ==
    IF g.throwAt.site = "rows" THEN Step(<<>>, TRUE)
    ELSE IF Len(g.rows) > inboxMinRows
         THEN IF g.throwAt.site = "rowFields"
                 /\ g.throwAt.n <= Min(Len(g.rows), inboxMaxRows)
              THEN Step(<<>>, TRUE)
              ELSE LET emailListContent == InboxText(g.rows, 1)
                   IN IF emailListContent # ""
                      THEN Step(<<Section(Some("Inbox Emails"), emailListContent, 6)>>, FALSE)
                      ELSE Step(<<>>, FALSE)
         ELSE Step(<<>>, FALSE)

\* A part of the try block after the parts that produced s: it does not
\* run when one of them threw.
Then(s, part) ==
    IF s.threw THEN s ELSE Step(s.sections \o part.sections, part.threw)

\* Lines 136-146 after the parts that produced s.
ThenMain(g, s) == Then(s, GmailMain(g, Len(s.sections)))

\* The try block (lines 71-176).
GmailTry(g) ==
    Then(ThenMain(g, Then(GmailSubject(g), GmailBodies(g))), GmailInbox(g))

\* The catch block (lines 177-183) pushes the whole-page section onto the
\* same array the try block filled.
GmailCatch(t, d) ==
    IF t.threw THEN t.sections \o <<WholePageSection(d)>> ELSE t.sections

extractGmailContent(d) == GmailCatch(GmailTry(d.gmail), d)

(***************************************************************************)
(* extractContent.                                                         *)
(***************************************************************************)
IsGmail(url) == Includes(Hostname(url), "mail.google.com")

extractContent(d, url) ==
    LET metadata == extractMetadata(d, url)
    IN IF IsGmail(url)
       THEN ExtractedOf(metadata, extractGmailContent(d))
       ELSE ExtractedOf(metadata, extractContentSections(d))

(***************************************************************************)
(* SpecExtract: extractContent applied to bounded documents.               *)
(***************************************************************************)
Heading(tagName, text) == El(tagName, {}, <<Txt(text)>>)
Paragraph(text) == El("P", {}, <<Txt(text)>>)
ListItem(text) == El("LI", {}, <<Txt(text)>>)
\* n one-letter words.
Words(n) == Trim(Repeat("w ", n))

\* The blocks a body is made of.  With the heading markers the combiner
\* adds, the 97-word paragraph gives pages of 97, 99, 100 and more words.
Blocks ==
    {Heading("H1", "Title"),
     Heading("H2", ""),
     Paragraph("Body text."),
     Paragraph(""),
     Paragraph(Words(minWords - 3)),
     Txt(" loose text "),
     El("UL", {}, <<ListItem("a"), ListItem(" "), ListItem("b")>>),
     El("UL", {}, <<ListItem(" ")>>),
     El("OL", {}, <<El("LI", {}, <<Txt("x"), El("UL", {}, <<ListItem("y")>>)>>)>>),
     El("NAV", {}, <<Paragraph("menu")>>),
     El("ARTICLE", {}, <<Heading("H3", "In"), Paragraph("Inside.")>>),
     El("DIV", {".content"}, <<Paragraph("Content div.")>>),
     El("DIV", {}, <<Heading("H1", "One"), Heading("H2", "Two"), Heading("H3", "Three"),
                     Heading("H4", "Four"), Heading("H5", "Five"), Heading("H6", "Six"),
                     Paragraph("Last.")>>)}

MaxBodyKids == 2

Bodies ==
    UNION {{El("BODY", {}, kids) : kids \in [1..n -> Blocks]} : n \in 0..MaxBodyKids}

\* document.body.innerText as a browser renders these pages: the text of
\* the blocks that have any, a blank line between blocks.
RECURSIVE InnerTextOf(_)
InnerTextOf(nodes) ==
    IF nodes = <<>> THEN ""
    ELSE LET first == Trim(TextContent(nodes[1]))
             rest == InnerTextOf(SubSeq(nodes, 2, Len(nodes)))
         IN IF first = "" THEN rest
            ELSE IF rest = "" THEN first
            ELSE first \o "\n\n" \o rest

NoMeta ==
    [ogSiteName |-> None, applicationName |-> None, description |-> None,
     ogDescription |-> None]

EmptyGmail ==
    [subjects |-> <<>>, bodiesA |-> <<>>, bodiesB |-> <<>>, listItems |-> <<>>,
     main |-> None, rows |-> <<>>, throwAt |-> NoThrow]

\* fault: the message of the error a DOM call of the structured extraction
\* throws on this document, None when the calls succeed.
\* hasBody: document.body is not null.
Document(title, meta, body, gmail) ==
    [title |-> title, meta |-> meta, body |-> body,
     innerText |-> InnerTextOf(body.kids), gmail |-> gmail, fault |-> None,
     hasBody |-> TRUE]

GenericUrl == "https://a.test/p"
GmailUrl == "https://mail.google.com/mail/u/0/"

GenericDocs == {Document("Page", NoMeta, b, EmptyGmail) : b \in Bodies}

\* Web-mail pages.  Row i carries the texts "s<i>", "t<i>" and "n<i>", so
\* that the rows listed can be read back from the inbox section.
RowOfKind(kind, i) ==
    LET sender == Some(" s" \o ToString(i) \o " ")
        subject == Some("t" \o ToString(i))
        snippet == Some("n" \o ToString(i))
    IN CASE kind = 1 -> [sender |-> sender, subject |-> subject, snippet |-> snippet]
         [] kind = 2 -> [sender |-> sender, subject |-> subject, snippet |-> None]
         [] kind = 3 -> [sender |-> None, subject |-> subject, snippet |-> snippet]
         [] kind = 4 -> [sender |-> sender, subject |-> Some(" "), snippet |-> snippet]

\* n rows whose kinds alternate between pattern[1] and pattern[2].
RowsOf(n, pattern) == [i \in 1..n |-> RowOfKind(pattern[((i - 1) % 2) + 1], i)]

MaxRows == 22

ThrowPoints ==
    {NoThrow} \cup
    {[site |-> x, n |-> 1] :
        x \in {"subject", "bodiesA", "senderA", "bodiesB", "senderB", "listItems",
               "main", "rows", "rowFields"}}
    \cup {[site |-> "senderA", n |-> 2], [site |-> "rowFields", n |-> 3]}

GmailViews ==
    LET MessageA1 == [text |-> " Hi there ", sender |-> Some("ann@x.test")]
        MessageA2 == [text |-> "Bye", sender |-> None]
        MessageB1 == [text |-> "Alt body", sender |-> Some(" ")]
        ItemShown == [text |-> "Item one", offsetHeight |-> 20, offsetWidth |-> 300]
        ItemHidden == [text |-> "Hidden", offsetHeight |-> 0, offsetWidth |-> 300]
        ItemBlank == [text |-> "  ", offsetHeight |-> 20, offsetWidth |-> 300]
    IN {[subjects |-> su, bodiesA |-> ba, bodiesB |-> bb, listItems |-> li, main |-> ma,
         rows |-> ro, throwAt |-> th] :
           su \in {<<>>, <<"Re: plan", "Other">>, <<" ">>},
           ba \in {<<>>, <<MessageA1, MessageA2>>},
           bb \in {<<>>, <<MessageB1>>},
           li \in {<<>>, <<ItemShown, ItemHidden, ItemBlank, ItemShown>>},
           ma \in {None, Some(" Main text ")},
           ro \in {<<>>, RowsOf(6, <<1, 3>>)},
           th \in ThrowPoints}
       \cup
       {[subjects |-> <<>>, bodiesA |-> <<>>, bodiesB |-> <<>>, listItems |-> <<>>,
         main |-> None, rows |-> RowsOf(n, pattern), throwAt |-> NoThrow] :
           n \in 0..MaxRows, pattern \in [1..2 -> 1..4]}

GmailBody == El("BODY", {}, <<El("DIV", {}, <<Txt("Mail page text")>>)>>)

GmailDocs == {Document("Inbox", NoMeta, GmailBody, g) : g \in GmailViews}

\* A page of another site whose host name contains the web-mail host's.
LookalikeUrl == "https://mail.google.com.a.test/p"
LookalikeDocs ==
    {Document("Page", NoMeta,
              El("BODY", {}, <<Heading("H1", "Title"), Paragraph("Body text.")>>), EmptyGmail)}

\* Pages that differ in their meta tags only: each of the four tags is
\* missing (or without a content attribute), has an empty content, or has a
\* content of its own.
MetaOf(tag) == {None, Some(""), Some(tag \o " text")}
MetaDocs ==
    {Document("Page",
              [ogSiteName |-> s, applicationName |-> a, description |-> m,
               ogDescription |-> o],
              El("BODY", {}, <<Paragraph("Body text.")>>), EmptyGmail) :
        s \in MetaOf("og:site_name"), a \in MetaOf("application-name"),
        m \in MetaOf("description"), o \in MetaOf("og:description")}

InitExtract ==
    /\ ScriptAbsent
    /\ \/ doc \in GenericDocs /\ href = GenericUrl
       \/ doc \in GmailDocs /\ href = GmailUrl
       \/ doc \in LookalikeDocs /\ href = LookalikeUrl
       \/ doc \in MetaDocs /\ href \in {GenericUrl, GmailUrl}
    /\ arg = <<>>
    /\ ret = <<>>
    /\ pc = "ready"

\* A mutation of the call: the excluded elements are removed from the live
\* body, not from a copy of it.
ExtractPruningBody ==
    /\ pc = "ready"
    /\ ret' = extractContent(doc, href)
    /\ pc' = "done"
    /\ doc' = IF ~IsGmail(href) /\ FirstMatches(doc, contentSelectors, 1) = <<>>
              THEN [doc EXCEPT !.body = El("BODY", {}, WithoutExcluded(doc.body.kids))]
              ELSE doc
    /\ UNCHANGED <<href, arg, scriptVars>>

\* extractContent reads the document and leaves it as it is.
Extract ==
    /\ pc = "ready"
    /\ ret' = extractContent(doc, href)
    /\ pc' = "done"
    /\ UNCHANGED <<doc, href, arg, scriptVars>>

\* A mutation of the second call: the extractor keeps the sections of the
\* call before in a field and adds to them.
ExtractAgainKeepingSections ==
    /\ pc = "done"
    /\ ret' = <<ret, ExtractedOf(extractMetadata(doc, href),
                                 ret.sections \o extractContent(doc, href).sections)>>
    /\ pc' = "again"
    /\ UNCHANGED <<doc, href, arg, scriptVars>>

\* A second call of extractContent on the same document and URL; ret then
\* holds the results of both calls.  A ContentExtractor has no fields, and
\* the first call left the document as it was.
ExtractAgain ==
    /\ pc = "done"
    /\ ret' = <<ret, extractContent(doc, href)>>
    /\ pc' = "again"
    /\ UNCHANGED <<doc, href, arg, scriptVars>>

NextExtract == Extract \/ ExtractAgain

SpecExtract == InitExtract /\ [][NextExtract]_vars

\* The number of whitespace-delimited tokens of s: the positions at which
\* a token begins.
TokenCount(s) ==
    Cardinality({i \in 1..Len(s) : ~IsWs(s, i) /\ (i = 1 \/ IsWs(s, i - 1))})

\* C2: in every result of extractContent, on either path, wordCount is the
\* number of whitespace-delimited tokens of the returned mainContent, 0 when
\* mainContent is empty.
C2_WordCountOfMainContent ==
    pc = "done" =>
        /\ ret.wordCount = TokenCount(ret.mainContent)
        /\ ret.mainContent = "" => ret.wordCount = 0

\* A result whose mainContent is empty, and so counts 0 words although
\* "".split(/\s+/) has one piece.
C2_Witness ==
    /\ pc = "done"
    /\ ret.mainContent = ""
    /\ ret.wordCount = 0

\* The page of C5: <h1>Title</h1><p>Body text.</p>, off the web-mail host.
IsTitleBodyPage ==
    /\ doc.body.kids = <<Heading("H1", "Title"), Paragraph("Body text.")>>
    /\ ~IsGmail(href)

\* C5 as stated: that page yields exactly one section and the mainContent
\* "## Title ##\n\nBody text.".
C5_ExactlyOneSection ==
    (pc = "done" /\ IsTitleBodyPage) =>
        /\ ret.sections = <<Section(Some("Title"), "Body text.", 10)>>
        /\ ret.mainContent = "## Title ##\n\nBody text."

\* C5 amended: that page yields the section {heading: "Title", content:
\* "Body text.", importance: 10} followed by the whole-page section
\* (document.body.innerText, importance 5) that the under-100-words rule
\* appends, and mainContent is "## Title ##\n\nBody text." followed by a
\* blank line and the page's innerText.
C5_TitleSectionThenWholePage ==
    (pc = "done" /\ IsTitleBodyPage) =>
        /\ ret.sections = <<Section(Some("Title"), "Body text.", 10),
                            Section(None, doc.innerText, 5)>>
        /\ ret.mainContent = "## Title ##\n\nBody text.\n\n" \o "Title\n\nBody text."
        /\ doc.innerText = "Title\n\nBody text."

C5_Witness ==
    /\ pc = "done"
    /\ IsTitleBodyPage
    /\ Len(ret.sections) = 2
    /\ ret.sections[1].importance = 10

\* The word count extractContentSections compares with 100: that of the
\* combined text of the sections found before the low-content check.
PrimaryWordCount == TokenCount(combineContentSections(PrimarySections(doc)))

\* C6 as stated: when the primary extraction found fewer than 100 words the
\* returned list has at least 2 entries, the last the whole-page section.
C6_AtLeastTwoSections ==
    (pc = "done" /\ ~IsGmail(href) /\ PrimaryWordCount < 100) =>
        /\ Len(ret.sections) >= 2
        /\ ret.sections[Len(ret.sections)] = Section(None, doc.innerText, 5)

\* C6 amended: when the combined text of the primary sections has fewer
\* than 100 words, the returned list is the primary sections followed by
\* the whole-page section of importance 5: it has at least 1 entry, and at
\* least 2 exactly when the primary extraction found a section.
C6_FallbackAppended ==
    (pc = "done" /\ ~IsGmail(href) /\ PrimaryWordCount < 100) =>
        /\ Len(ret.sections) >= 1
        /\ ret.sections[Len(ret.sections)] = Section(None, doc.innerText, 5)
        /\ Len(ret.sections) = Len(PrimarySections(doc)) + 1
        /\ SubSeq(ret.sections, 1, Len(ret.sections) - 1) = PrimarySections(doc)

\* A page of 99 words (two markers, a title and a 97-word paragraph make
\* 100, so this is the paragraph branch: 97 + 2) whose sections are kept
\* and followed by the whole-page section.
C6_Witness ==
    /\ pc = "done"
    /\ ~IsGmail(href)
    /\ PrimaryWordCount = 99
    /\ Len(ret.sections) = 2
    /\ ret.sections[2].importance = 5

\* The heading texts of the blocks, by heading level.
HeadingLevelOfText ==
    [t \in {"Title", "One", "Two", "Three", "Four", "Five", "Six", "In"} |->
        CASE t \in {"Title", "One"} -> 1 [] t = "Two" -> 2 [] t \in {"Three", "In"} -> 3
          [] t = "Four" -> 4 [] t = "Five" -> 5 [] t = "Six" -> 6]

\* C8: a heading section's importance is that of its level: h1 -> 10,
\* h2 -> 9, h3 -> 8, h4 -> 7, h5 -> 6, h6 -> 5, never below 5 or above 10.
C8_HeadingImportance ==
    (pc = "done" /\ ~IsGmail(href)) =>
        \A i \in 1..Len(ret.sections) :
            LET section == ret.sections[i]
            IN (IsSome(section.heading) /\ section.heading[1] \in DOMAIN HeadingLevelOfText) =>
                  /\ section.importance =
                        <<10, 9, 8, 7, 6, 5>>[HeadingLevelOfText[section.heading[1]]]
                  /\ section.importance >= 5 /\ section.importance <= 10

\* A result with a section for each of the six heading levels.
C8_Witness ==
    /\ pc = "done"
    /\ ~IsGmail(href)
    /\ \A t \in {"One", "Two", "Three", "Four", "Five", "Six"} :
          \E i \in 1..Len(ret.sections) : ret.sections[i].heading = Some(t)

\* Whether a call of the web-mail extraction threw on this document.
GmailThrew == IsGmail(href) /\ GmailTry(doc.gmail).threw

\* C7: if an exception is thrown during the web-mail extraction, the list
\* returned is exactly one section, document.body's text at importance 5
\* without heading: what was collected before the exception is discarded.
C7_OnlyWholePageAfterException ==
    (pc = "done" /\ GmailThrew) =>
        ret.sections = <<Section(None, doc.innerText, 5)>>

\* The sections with the heading of the inbox listing.
InboxSections == SelectSeq(ret.sections, LAMBDA x : x.heading = Some("Inbox Emails"))
LineCount(s) == Cardinality({i \in 1..Len(s) : SubSeq(s, i, i) = "\n"})
\* The beginning of the line that lists row i.
LineStart(i) ==
    ToString(i) \o ". From: s" \o ToString(i) \o " - Subject: t" \o ToString(i)
\* Row i has a sender and a subject.
IsComplete(row) ==
    /\ IsSome(row.sender) /\ Trim(row.sender[1]) # ""
    /\ IsSome(row.subject) /\ Trim(row.subject[1]) # ""

\* C9: on the web-mail path the inbox section (importance 6) exists only
\* with more than 5 rows; it has one line per row among the first 20 that
\* has a sender and a subject, in document order, so at most 20 lines, and
\* no row past the twentieth is listed.
C9_InboxCappedAtTwenty ==
    (pc = "done" /\ IsGmail(href)) =>
        LET rows == doc.gmail.rows
            listed == {i \in 1..Len(rows) : i <= 20 /\ IsComplete(rows[i])}
        IN /\ Len(rows) <= 5 => InboxSections = <<>>
           /\ Len(InboxSections) <= 1
           /\ (~GmailThrew /\ Len(rows) > 5 /\ listed # {}) => Len(InboxSections) = 1
           /\ \A k \in 1..Len(InboxSections) :
                 LET content == InboxSections[k].content
                 IN /\ InboxSections[k].importance = 6
                    /\ LineCount(content) <= 20
                    /\ LineCount(content) = Cardinality(listed)
                    /\ \A i \in 1..Len(rows) : Includes(content, LineStart(i)) <=> i \in listed
                    /\ \A i, j \in listed :
                          i < j => IndexOf(content, LineStart(i)) < IndexOf(content, LineStart(j))

\* More than 20 rows, the 21st with sender and subject, and 20 lines listed.
C9_Witness ==
    /\ pc = "done"
    /\ IsGmail(href)
    /\ Len(doc.gmail.rows) > 20
    /\ IsComplete(doc.gmail.rows[21])
    /\ Len(InboxSections) = 1
    /\ LineCount(InboxSections[1].content) = 20

(***************************************************************************)
(* The content script (src/src/content/contentScript.ts).                  *)
(***************************************************************************)
\* contentExtractor.extractContent() throws on this document.
StructuredThrows(d) == IsSome(d.fault)

simpleTextLimit == 10000
fallbackTextLimit == 5000

\* extractPageTextSimple
extractPageTextSimple(d, url) ==
    LET text == IF Len(d.innerText) > simpleTextLimit
                THEN Substring0(d.innerText, simpleTextLimit) \o "... (truncated)"
                ELSE d.innerText
    IN "PAGE INFORMATION:\nTitle: " \o d.title \o "\nURL: " \o url
       \o "\n\nPAGE CONTENT (" \o ToString(countWords(text)) \o " words):\n" \o text

\* The content script's extractContent(): the formatted structured
\* extraction, or the simple text when that throws.
scriptExtractContent(d, url) ==
    IF StructuredThrows(d) THEN extractPageTextSimple(d, url)
    ELSE formatContentForChatGPT(extractContent(d, url))

\* The pageTextExtracted message of the try block of sendExtractedPageContent.
PageTextMessage(text, extractedResult) ==
    [action |-> "pageTextExtracted", text |-> text,
     wordCount |-> extractedResult.wordCount, metadata |-> extractedResult.metadata]

\* The pageTextExtracted message of its catch block.
FallbackMessage(d) ==
    LET fallbackText == Substring0(d.innerText, fallbackTextLimit) \o "... (truncated)"
    IN [action |-> "pageTextExtracted", text |-> fallbackText,
        wordCount |-> SplitCount(fallbackText), error |-> d.fault[1]]

\* What reading document.body.innerText throws when document.body is null.
nullBodyError == "Cannot read properties of null (reading 'innerText')"

\* What sendExtractedPageContent leaves in the cache and posts, given the
\* cache after its first statement.
PageTextResult(filled, d, url) ==
    [cache |-> filled,
     posts |-> IF StructuredThrows(d) THEN <<FallbackMessage(d)>>
               ELSE <<PageTextMessage(filled[1], extractContent(d, url))>>,
     uncaught |-> None]

\* sendExtractedPageContent: the cache it leaves, the messages it posts and
\* the error that escapes it.  Without document.body the structured and the
\* simple extraction both throw, and so does the catch block's own read of
\* document.body.innerText.
sendExtractedPageContent(cache, d, url) ==
    IF StructuredThrows(d) /\ ~d.hasBody
    THEN [cache |-> cache, posts |-> <<>>, uncaught |-> Some(nullBodyError)]
    ELSE PageTextResult(IF Truthy(cache) THEN cache
                        ELSE Some(scriptExtractContent(d, url)), d, url)

\* The iframe createOverlay returns.
NewFrame == [display |-> "", attached |-> TRUE]
WithDisplay(frame, display) == Some([frame[1] EXCEPT !.display = display])

\* A mutation of handleToggleOverlay: overlayVisible is set before
\* createOverlay is called, and so also when it throws.
handleToggleOverlayEager(forceState, created) ==
    LET newState == IF IsSome(forceState) THEN forceState[1] ELSE ~overlayVisible
    IN IF  newState /\ overlayFrame = None
       THEN [frame |-> IF created THEN Some(NewFrame) ELSE overlayFrame, visible |-> TRUE]
       ELSE IF newState /\ overlayFrame # None
            THEN [frame |-> WithDisplay(overlayFrame, "block"), visible |-> TRUE]
       ELSE IF ~newState /\ overlayFrame # None
            THEN [frame |-> WithDisplay(overlayFrame, "none"), visible |-> FALSE]
       ELSE [frame |-> overlayFrame, visible |-> overlayVisible]

\* handleToggleOverlay(forceState); forceState is None when not given.
\* created: whether createOverlay succeeds should it be called.
handleToggleOverlay(forceState, created) ==
    LET newState == IF IsSome(forceState) THEN forceState[1] ELSE ~overlayVisible
    IN IF  newState /\ overlayFrame = None
       THEN IF created
            THEN [frame |-> Some(NewFrame), visible |-> TRUE]
            ELSE [frame |-> overlayFrame, visible |-> overlayVisible]
       ELSE IF newState /\ overlayFrame # None
            THEN [frame |-> WithDisplay(overlayFrame, "block"), visible |-> TRUE]
       ELSE IF ~newState /\ overlayFrame # None
            THEN [frame |-> WithDisplay(overlayFrame, "none"), visible |-> FALSE]
       ELSE [frame |-> overlayFrame, visible |-> overlayVisible]

\* OpenAIService.hasApiKey
hasApiKey == IsSome(apiKey) /\ Trim(apiKey[1]) # ""

noKeyMessage ==
    "No API key set. Please configure your OpenAI API key in the extension settings."

Processing(flag) == [action |-> "chatGptProcessing", processing |-> flag]
ChatResponseMessage(response, success) ==
    [action |-> "chatGptResponse", response |-> response, success |-> success]

(***************************************************************************)
(* Spec: the content script on a page that navigates and changes.          *)
(***************************************************************************)
MaxInflight == 1
MaxPendingSaves == 1

ScriptUrls == {"https://a.test/p", "https://a.test/q"}

\* The pages the script runs on: two that extract well; two on which a
\* call of the structured extraction throws, one with a text longer than
\* the fallback's budget and one with a shorter text; and one whose body
\* element was removed (document.body is null, and extractContentSections
\* throws on reading body.innerHTML).
DocOther ==
    Document("Other", NoMeta, El("BODY", {}, <<Paragraph("Second page.")>>), EmptyGmail)
ScriptDocs ==
    {Document("Page", NoMeta,
              El("BODY", {}, <<Heading("H1", "Title"), Paragraph("Body text.")>>), EmptyGmail),
     DocOther,
     [DocOther EXCEPT !.fault = Some("DOM failure"),
                      !.innerText = TextOfLength(fallbackTextLimit + 3)],
     [DocOther EXCEPT !.fault = Some("DOM failure")],
     [Document("Other", NoMeta, El("BODY", {}, <<>>), EmptyGmail)
         EXCEPT !.fault = Some("Cannot read properties of null (reading 'innerHTML')"),
                !.hasBody = FALSE]}

SavedKeys == {"sk-new"}
\* The JavaScript value null of a response field, told apart from every
\* text.
NullValue == "<null>"

\* What the fetch of sendMessage can come to: it rejects (no network), or
\* it resolves with a response that is ok or not, whose body is JSON or not
\* (None), the JSON holding the API's error message or the contents of the
\* choices' messages.
FetchOutcomes ==
    LET Response(ok, statusText, body) ==
            [rejected |-> FALSE, ok |-> ok, statusText |-> statusText, body |-> body]
        ApiError(message) == Some([error |-> message, choices |-> <<>>])
        Completion(contents) == Some([error |-> None, choices |-> contents])
    IN  {[rejected |-> TRUE, ok |-> FALSE, statusText |-> "", body |-> None],
         Response(FALSE, "Bad Gateway", None),
         Response(FALSE, "Too Many Requests", ApiError(Some("Rate limit reached"))),
         Response(TRUE, "OK", Completion(<<>>)),
         Response(TRUE, "OK", Completion(<<"Answer.">>)),
         Response(TRUE, "OK", Completion(<<NullValue>>))}

\* The value sendMessage resolves with when it holds a key (lines 94-130):
\* every exception of the try block is an Error and becomes a text.
sendMessage(outcome) ==
    IF outcome.rejected THEN "Error: Failed to fetch"
    ELSE IF outcome.body = None
         THEN "Error: Unexpected token '<', \"<html>\" is not valid JSON"
    ELSE IF ~outcome.ok
         THEN "Error: API Error: " \o (IF Truthy(outcome.body[1].error)
                                       THEN outcome.body[1].error[1]
                                       ELSE outcome.statusText)
    ELSE IF outcome.body[1].choices = <<>>
         THEN "Error: Cannot read properties of undefined (reading 'message')"
    ELSE outcome.body[1].choices[1]

ChatOutcomes == {sendMessage(outcome) : outcome \in FetchOutcomes}

Init ==
    /\ doc \in ScriptDocs
    /\ href \in ScriptUrls
    /\ arg = <<>>
    /\ ret = <<>>
    /\ pc = "script"
    /\ overlayVisible = FALSE
    /\ overlayFrame = None
    /\ extractedPageContent = None
    /\ lastProcessedUrl = href
    /\ posted = <<>>
    /\ apiKey = None
    /\ storedKey \in {None, Some("sk-old")}
    /\ loadPending = TRUE
    /\ pendingSaves = <<>>
    /\ inflight = 0
    /\ uncaught = None

harnessVars == <<arg, ret, pc>>
pageVars == <<doc, href>>
serviceVars == <<apiKey, storedKey, loadPending, pendingSaves, inflight>>

\* The content script is between handlers, and the overlay has handled
\* what was posted to it before.
Idle == pc = "script" /\ posted = <<>>
\* A window "message" event whose source is the iframe's contentWindow.
FromIframe == Idle /\ overlayFrame # None /\ overlayFrame[1].attached

\* overlayFrame?.contentWindow?.postMessage for each of messages: the
\* contentWindow of an iframe that left the document is null.
Post(messages) ==
    IF overlayFrame # None /\ overlayFrame[1].attached THEN posted \o messages ELSE posted

\* The iframe was appended to document.body: it leaves the document with it.
FrameOn(d) ==
    IF overlayFrame # None /\ ~d.hasBody
    THEN Some([overlayFrame[1] EXCEPT !.attached = FALSE])
    ELSE overlayFrame

othersOnPageChange ==
    <<overlayVisible, extractedPageContent, lastProcessedUrl, posted, serviceVars, uncaught>>

\* The page navigates without a reload (history.pushState).
Navigate ==
    /\ Idle
    /\ \E u \in ScriptUrls \ {href}, d \in ScriptDocs :
          href' = u /\ doc' = d /\ overlayFrame' = FrameOn(d)
    /\ UNCHANGED <<harnessVars, othersOnPageChange>>

\* The page changes its content.
Mutate ==
    /\ Idle
    /\ \E d \in ScriptDocs \ {doc} : doc' = d /\ overlayFrame' = FrameOn(d)
    /\ UNCHANGED <<href, harnessVars, othersOnPageChange>>

\* urlChangeDetector's interval callback.
UrlPoll ==
    /\ Idle
    /\ href # lastProcessedUrl
    /\ lastProcessedUrl' = href
    /\ IF overlayVisible /\ overlayFrame # None
       THEN \E r \in {sendExtractedPageContent(None, doc, href)} :
               /\ extractedPageContent' = r.cache
               /\ posted' = Post(r.posts)
               /\ uncaught' = IF IsSome(r.uncaught) THEN r.uncaught ELSE uncaught
       ELSE /\ extractedPageContent' = None
            /\ UNCHANGED <<posted, uncaught>>
    /\ UNCHANGED <<overlayVisible, overlayFrame, pageVars, harnessVars, serviceVars>>

\* handleRuntimeMessage with action toggleOverlay.
ToggleOverlay ==
    /\ Idle
    /\ \E created \in (IF doc.hasBody THEN BOOLEAN ELSE {FALSE}) :
          LET r == handleToggleOverlay(None, created)
          IN overlayFrame' = r.frame /\ overlayVisible' = r.visible
    /\ UNCHANGED <<extractedPageContent, lastProcessedUrl, posted, pageVars,
                   harnessVars, uncaught, serviceVars>>

\* handleIframeMessage: closeOverlay.
CloseOverlay ==
    /\ FromIframe
    /\ LET r == handleToggleOverlay(Some(FALSE), TRUE)
       IN overlayFrame' = r.frame /\ overlayVisible' = r.visible
    /\ UNCHANGED <<extractedPageContent, lastProcessedUrl, posted, pageVars,
                   harnessVars, uncaught, serviceVars>>

\* handleIframeMessage: getPageText.
GetPageText ==
    /\ FromIframe
    /\ \E r \in {sendExtractedPageContent(extractedPageContent, doc, href)} :
          /\ extractedPageContent' = r.cache
          /\ posted' = Post(r.posts)
          /\ uncaught' = IF IsSome(r.uncaught) THEN r.uncaught ELSE uncaught
    /\ UNCHANGED <<overlayVisible, overlayFrame, lastProcessedUrl, pageVars,
                   harnessVars, serviceVars>>

\* handleIframeMessage: refreshPageContent.
RefreshPageContent ==
    /\ FromIframe
    /\ \E r \in {sendExtractedPageContent(None, doc, href)} :
          /\ extractedPageContent' = r.cache
          /\ posted' = Post(r.posts)
          /\ uncaught' = IF IsSome(r.uncaught) THEN r.uncaught ELSE uncaught
    /\ UNCHANGED <<overlayVisible, overlayFrame, lastProcessedUrl, pageVars,
                   harnessVars, serviceVars>>

\* A mutation of the request: sendMessage does not test the key and issues
\* the HTTP request without one.
SendToChatGPTWithoutKeyCheck ==
    /\ FromIframe
    /\ extractedPageContent' =
          IF Truthy(extractedPageContent) THEN extractedPageContent
          ELSE Some(scriptExtractContent(doc, href))
    /\ inflight < MaxInflight
    /\ posted' = Append(posted, Processing(TRUE))
    /\ inflight' = inflight + 1
    /\ UNCHANGED <<overlayVisible, overlayFrame, lastProcessedUrl, pageVars, harnessVars,
                   uncaught, apiKey, storedKey, loadPending, pendingSaves>>

\* handleIframeMessage: sendToChatGPT, up to the await of the fetch; without
\* an API key sendMessage rejects and the handler runs to its end.
SendToChatGPT ==
    /\ FromIframe
    /\ extractedPageContent' =
          IF Truthy(extractedPageContent) THEN extractedPageContent
          ELSE Some(scriptExtractContent(doc, href))
    /\ IF Truthy(apiKey)
       THEN /\ inflight < MaxInflight
            /\ posted' = Append(posted, Processing(TRUE))
            /\ inflight' = inflight + 1
       ELSE /\ posted' = posted \o <<Processing(TRUE),
                                     ChatResponseMessage("Error: " \o noKeyMessage, FALSE),
                                     Processing(FALSE)>>
            /\ UNCHANGED inflight
    /\ UNCHANGED <<overlayVisible, overlayFrame, lastProcessedUrl, pageVars, harnessVars,
                   uncaught, apiKey, storedKey, loadPending, pendingSaves>>

\* A mutation of the settling: handleChatGPTRequest has no finally block.
ChatSettlesWithoutFinally ==
    /\ Idle /\ inflight > 0
    /\ \E response \in ChatOutcomes :
          posted' = Post(<<ChatResponseMessage(response, TRUE)>>)
    /\ inflight' = inflight - 1
    /\ UNCHANGED <<overlayVisible, overlayFrame, extractedPageContent, lastProcessedUrl,
                   pageVars, harnessVars, uncaught, apiKey, storedKey, loadPending, pendingSaves>>

\* The fetch of sendMessage settles: sendMessage resolves with the answer or
\* with an error text, and handleChatGPTRequest posts it and then finishes.
ChatSettles ==
    /\ Idle /\ inflight > 0
    /\ \E response \in ChatOutcomes :
          posted' = Post(<<ChatResponseMessage(response, TRUE), Processing(FALSE)>>)
    /\ inflight' = inflight - 1
    /\ UNCHANGED <<overlayVisible, overlayFrame, extractedPageContent, lastProcessedUrl,
                   pageVars, harnessVars, uncaught, apiKey, storedKey, loadPending, pendingSaves>>

\* handleIframeMessage: saveApiKey, up to the await of the storage write.
SaveApiKey ==
    /\ FromIframe
    /\ Len(pendingSaves) < MaxPendingSaves
    /\ \E key \in SavedKeys :
          /\ apiKey' = Some(key)
          /\ pendingSaves' = Append(pendingSaves, key)
    /\ UNCHANGED <<overlayVisible, overlayFrame, extractedPageContent, lastProcessedUrl,
                   posted, pageVars, harnessVars, uncaught, storedKey, loadPending, inflight>>

\* The storage write calls back (after the read issued before it did):
\* saveApiKey resumes and posts apiKeySaved.
SaveSettles ==
    /\ Idle /\ pendingSaves # <<>> /\ ~loadPending
    /\ storedKey' = Some(Head(pendingSaves))
    /\ pendingSaves' = Tail(pendingSaves)
    /\ posted' = Post(<<[action |-> "apiKeySaved", success |-> TRUE]>>)
    /\ UNCHANGED <<overlayVisible, overlayFrame, extractedPageContent, lastProcessedUrl,
                   pageVars, harnessVars, uncaught, apiKey, loadPending, inflight>>

\* The callback of the storage read the constructor started (loadApiKey).
LoadSettles ==
    /\ Idle /\ loadPending
    /\ loadPending' = FALSE
    /\ apiKey' = IF Truthy(storedKey) THEN storedKey ELSE apiKey
    /\ UNCHANGED <<overlayVisible, overlayFrame, extractedPageContent, lastProcessedUrl,
                   posted, pageVars, harnessVars, uncaught, storedKey, pendingSaves, inflight>>

\* handleIframeMessage: checkApiKey.
CheckApiKey ==
    /\ FromIframe
    /\ posted' = Append(posted, [action |-> "apiKeyStatus", hasApiKey |-> hasApiKey])
    /\ UNCHANGED <<overlayVisible, overlayFrame, extractedPageContent, lastProcessedUrl,
                   pageVars, harnessVars, uncaught, serviceVars>>

\* handleIframeMessage on an event from another window, or with an action
\* it does not know; handleRuntimeMessage with an unknown action.
IgnoredMessage ==
    /\ Idle
    /\ UNCHANGED vars

\* The overlay handles the oldest message posted to it.
Deliver ==
    /\ pc = "script" /\ posted # <<>>
    /\ posted' = Tail(posted)
    /\ UNCHANGED <<overlayVisible, overlayFrame, extractedPageContent, lastProcessedUrl,
                   pageVars, harnessVars, uncaught, serviceVars>>

Next ==
    \/ Navigate \/ Mutate \/ UrlPoll \/ ToggleOverlay \/ CloseOverlay
    \/ GetPageText \/ RefreshPageContent \/ SendToChatGPT \/ ChatSettles
    \/ SaveApiKey \/ SaveSettles \/ LoadSettles \/ CheckApiKey
    \/ IgnoredMessage \/ Deliver

Spec == Init /\ [][Next]_vars

\* The URLs a formatted page text names in its "URL:" line, that is, the
\* URL the page had when the text was extracted.
ExtractedUnder(text) == {u \in ScriptUrls : Includes(text, "\nURL: " \o u \o "\n")}

\* The pageTextExtracted messages that carry the cached text; their metadata
\* is extracted afresh at the moment they are posted.
ServedFromCache ==
    {i \in 1..Len(posted) : /\ posted[i].action = "pageTextExtracted"
                            /\ "metadata" \in DOMAIN posted[i]}

\* C10: page content served from the cache was extracted while the page had
\* the URL that is current at the moment it is served: the text of every
\* pageTextExtracted reply names the URL its freshly extracted metadata names.
C10_ServedContentExtractedUnderCurrentUrl ==
    \A i \in ServedFromCache : ExtractedUnder(posted[i].text) = {posted[i].metadata.url}

\* The steps in which sendExtractedPageContent runs.
SendsPageContent ==
    GetPageText \/ RefreshPageContent \/ (UrlPoll /\ overlayVisible /\ overlayFrame # None)

\* C11: when structured extraction throws inside sendExtractedPageContent,
\* no exception escapes and exactly one pageTextExtracted message is posted:
\* its text is the first 5,000 characters of document.body's innerText plus
\* "... (truncated)", its error the message of the exception thrown.
C11_FallbackPostedWhenExtractionThrows ==
    [][(SendsPageContent /\ StructuredThrows(doc)) =>
          /\ uncaught' = uncaught
          /\ Len(posted') = 1
          /\ posted'[1].action = "pageTextExtracted"
          /\ posted'[1].text = Substring0(doc.innerText, 5000) \o "... (truncated)"
          /\ posted'[1].error = doc.fault[1]]_vars

C13_ImportanceInRange ==
    pc = "done" =>
        \A i \in 1..Len(ret.sections) :
            /\ ret.sections[i].importance \in Int
            /\ ret.sections[i].importance >= 1
            /\ ret.sections[i].importance <= 10

\* A generic result holding a heading section of importance 10, a list
\* section and the whole-page fallback section.
C13_Witness ==
    /\ pc = "done"
    /\ ~IsGmail(href)
    /\ \E i, j, k \in 1..Len(ret.sections) :
          /\ ret.sections[i].importance = 10
          /\ ret.sections[j].importance = 6
          /\ ret.sections[k] = Section(None, doc.innerText, 5)

\* C14: extractContent takes its sections from the web-mail extractor if
\* and only if the page's host is mail.google.com, and from the generic
\* extractor on every other host.
C14_WebMailIffHost ==
    pc = "done" =>
        IF Hostname(href) = "mail.google.com"
        THEN ret.sections = extractGmailContent(doc)
        ELSE ret.sections = extractContentSections(doc)

\* C15: the siteName of the metadata is the og:site_name content when that
\* is present and not empty, else the application-name content when that is
\* present and not empty, else the host of the URL; the description is the
\* description content, else the og:description content, else undefined;
\* extractMetadata returns for every combination of the four tags.
C15_MetadataPriority ==
    pc = "done" =>
        LET m == doc.meta
            has(o) == o # None /\ o # Some("")
        IN /\ ret.metadata.title = doc.title
           /\ ret.metadata.url = href
           /\ has(m.ogSiteName) => ret.metadata.siteName = m.ogSiteName
           /\ ~has(m.ogSiteName) /\ has(m.applicationName) =>
                  ret.metadata.siteName = m.applicationName
           /\ ~has(m.ogSiteName) /\ ~has(m.applicationName) =>
                  ret.metadata.siteName = Some(Hostname(href))
           /\ has(m.description) => ret.metadata.description = m.description
           /\ ~has(m.description) /\ has(m.ogDescription) =>
                  ret.metadata.description = m.ogDescription
           /\ ~has(m.description) /\ ~has(m.ogDescription) =>
                  ret.metadata.description = None
C15_Witness ==
    /\ pc = "done"
    /\ doc.meta.ogSiteName = Some("")
    /\ doc.meta.applicationName = Some("application-name text")
    /\ ret.metadata.siteName = Some("application-name text")
    /\ doc.meta.description = None
    /\ doc.meta.ogDescription = Some("")
    /\ ret.metadata.description = None

(***************************************************************************)
(* isElementVisible of the text extraction utilities.                      *)
(*                                                                         *)
(* An element is seen through the three computed style properties the      *)
(* function reads and its two layout sizes; arg is the element and ret     *)
(* the boolean returned.                                                   *)
(***************************************************************************)
MaxOffset == 2
StyledElements ==
    [display : {"none", "block", "inline"},
     visibility : {"hidden", "visible", "collapse"},
     opacity : {"0", "0.5", "1"},
     offsetWidth : 0..MaxOffset, offsetHeight : 0..MaxOffset]

\* A mutation of isElementVisible: the opacity is not looked at.
isElementVisibleIgnoringOpacity(element) ==
    ~ \/ element.display = "none"
      \/ element.visibility = "hidden"
      \/ element.offsetWidth = 0
      \/ element.offsetHeight = 0

isElementVisible(element) ==
    ~ \/ element.display = "none"
      \/ element.visibility = "hidden"
      \/ element.opacity = "0"
      \/ element.offsetWidth = 0
      \/ element.offsetHeight = 0

InitVisible ==
    /\ ScriptAbsent
    /\ arg \in StyledElements
    /\ ret = <<>>
    /\ pc = "ready"
    /\ doc = NoDoc
    /\ href = ""

Visible ==
    /\ pc = "ready"
    /\ ret' = isElementVisible(arg)
    /\ pc' = "done"
    /\ UNCHANGED <<arg, doc, href, scriptVars>>

NextVisible == Visible

SpecVisible == InitVisible /\ [][NextVisible]_vars

\* C16: isElementVisible returns false for an element with display 'none',
\* with visibility 'hidden', with opacity '0', with offsetWidth 0 or with
\* offsetHeight 0, and true for an element with none of the five.
C16_VisibleUnlessOneOfFive ==
    pc = "done" =>
        /\ arg.display = "none" => ret = FALSE
        /\ arg.visibility = "hidden" => ret = FALSE
        /\ arg.opacity = "0" => ret = FALSE
        /\ arg.offsetWidth = 0 => ret = FALSE
        /\ arg.offsetHeight = 0 => ret = FALSE
        /\ ( /\ arg.display # "none" /\ arg.visibility # "hidden" /\ arg.opacity # "0"
             /\ arg.offsetWidth # 0 /\ arg.offsetHeight # 0 ) => ret = TRUE
C16_Witness ==
    /\ pc = "done"
    /\ arg.display = "block" /\ arg.visibility = "visible" /\ arg.opacity = "0"
    /\ arg.offsetWidth > 0 /\ arg.offsetHeight > 0
    /\ ret = FALSE

\* The words of the headings and contents of a list of sections.
RECURSIVE SectionWords(_)
SectionWords(sections) ==
    IF sections = <<>> THEN 0
    ELSE (IF IsSome(sections[1].heading) THEN TokenCount(sections[1].heading[1]) ELSE 0)
         + TokenCount(sections[1].content)
         + SectionWords(Tail(sections))

\* C17: the generic extractor appends the whole-page section of importance 5
\* if and only if the headings and contents of the sections emitted so far
\* hold fewer than 100 words together; with 100 words or more the sections
\* are returned as they are.
C17_FallbackIffBelowHundredWords ==
    (pc = "done" /\ ~IsGmail(href)) =>
        IF SectionWords(PrimarySections(doc)) < minWords
        THEN ret.sections = PrimarySections(doc) \o <<Section(None, doc.innerText, 5)>>
        ELSE ret.sections = PrimarySections(doc)

\* Step 2 of the web-mail path finds a message on the page: a match of
\* selector set A or B, or a rendered list item with text.
MessageFound(g) ==
    \/ Len(g.bodiesA) > 0
    \/ Len(g.bodiesB) > 0
    \/ \E i \in 1..Len(g.listItems) :
          /\ g.listItems[i].offsetHeight > 0 /\ g.listItems[i].offsetWidth > 0
          /\ Trim(g.listItems[i].text) # ""

\* C18: on the web-mail path the 'Email Content' section of importance 7,
\* built from the main region's text, is never among the sections when
\* step 2 found at least one message section.
C18_MainTextOnlyWithoutMessages ==
    (pc = "done" /\ IsGmail(href) /\ doc.gmail.throwAt = NoThrow
        /\ MessageFound(doc.gmail)) =>
        \A i \in 1..Len(ret.sections) :
            ~ /\ ret.sections[i].heading = Some("Email Content")
              /\ ret.sections[i].importance = 7

\* The message sections of the result: those of importance 9 or 8.
IsMessageSection(section) == section.importance \in {9, 8}
MessageSections == SelectSeq(ret.sections, IsMessageSection)

\* The matches of the one method that supplies the message bodies, and the
\* importance of its sections.
IsRenderedWithText(item) ==
    item.offsetHeight > 0 /\ item.offsetWidth > 0 /\ Trim(item.text) # ""
ChosenMatches(g) ==
    IF Len(g.bodiesA) > 0 THEN g.bodiesA
    ELSE IF Len(g.bodiesB) > 0 THEN g.bodiesB
    ELSE SelectSeq(g.listItems, IsRenderedWithText)
ChosenImportance(g) == IF Len(g.bodiesA) > 0 \/ Len(g.bodiesB) > 0 THEN 9 ELSE 8

\* C19: on the web-mail path the message sections come from one method:
\* selector set A; if A matches nothing, set B; if B matches nothing too,
\* the rendered list items with text.  There is one section per match, in
\* document order, of importance 9 for A and B and 8 for list items, and a
\* section of A or B whose sender element is missing is headed
\* 'Email from Sender N' with N its 1-based position.
C19_OneMethodInOrder ==
    (pc = "done" /\ IsGmail(href) /\ doc.gmail.throwAt = NoThrow) =>
        LET g == doc.gmail
            matches == ChosenMatches(g)
        IN /\ Len(MessageSections) = Len(matches)
           /\ \A i \in 1..Len(matches) :
                 /\ i <= Len(MessageSections)
                 /\ MessageSections[i].importance = ChosenImportance(g)
                 /\ MessageSections[i].content = Trim(matches[i].text)
                 /\ (ChosenImportance(g) = 9 /\ matches[i].sender = None) =>
                        MessageSections[i].heading
                            = Some("Email from Sender " \o ToString(i))
C19_Witness ==
    /\ pc = "done" /\ IsGmail(href) /\ doc.gmail.throwAt = NoThrow
    /\ Len(doc.gmail.bodiesA) = 2 /\ Len(doc.gmail.bodiesB) > 0
    /\ Len(doc.gmail.listItems) > 0
    /\ Len(MessageSections) = 2
    /\ doc.gmail.bodiesA[2].sender = None
    /\ MessageSections[2] = Section(Some("Email from Sender 2"), "Bye", 9)

(***************************************************************************)
(* processContentElement on one root element: arg is the root, ret the     *)
(* sections pushed.                                                        *)
(***************************************************************************)
InitProcess ==
    /\ ScriptAbsent
    /\ arg \in Bodies
    /\ ret = <<>>
    /\ pc = "ready"
    /\ doc = NoDoc
    /\ href = ""

Process ==
    /\ pc = "ready"
    /\ ret' = processContentElement(arg)
    /\ pc' = "done"
    /\ UNCHANGED <<arg, doc, href, scriptVars>>

NextProcess == Process

SpecProcess == InitProcess /\ [][NextProcess]_vars

\* What the root holds: its headings, its paragraphs, and the sections
\* pushed before those of the lists.
RootHeadings == QuerySelectorAll(arg, <<"h1", "h2", "h3", "h4", "h5", "h6">>)
RootParagraphs == QuerySelectorAll(arg, <<"p">>)
RootLists == QuerySelectorAll(arg, <<"ul", "ol">>)
PrimaryPushed == SubSeq(ret, 1, Len(ret) - Len(ListSections(RootLists)))
HeadingHasSection(h) ==
    Trim(TextContent(h.node)) # "" \/ FollowingText(h.following) # ""

\* C20 as stated: a root with headings yields one section per heading; a
\* root without headings and with paragraphs a single section of
\* importance 7; any other root a single section of importance 5 with the
\* root's full text.
C20_OneBranchOneSectionEach ==
    pc = "done" =>
        IF Len(RootHeadings) > 0 THEN Len(PrimaryPushed) = Len(RootHeadings)
        ELSE IF Len(RootParagraphs) > 0
             THEN PrimaryPushed = <<Section(None, Trim(ParagraphText(RootParagraphs)), 7)>>
        ELSE PrimaryPushed = <<Section(None, Trim(TextContent(arg)), 5)>>

\* C20 amended: exactly one of the three branches supplies the sections:
\* under a root with headings, one section for each heading that has text
\* or following content and none for the others; under a root without
\* headings and with paragraphs, one section of importance 7 with the text
\* of the paragraphs if any of them has text, else none; under any other
\* root, one section of importance 5 with the root's text if it has text,
\* else none.  No paragraph or full-text section is pushed under a root
\* with a heading.
C20_OneBranchAtMostOneSectionEach ==
    pc = "done" =>
        IF Len(RootHeadings) > 0
        THEN /\ Len(PrimaryPushed)
                    = Cardinality({i \in 1..Len(RootHeadings) :
                                       HeadingHasSection(RootHeadings[i])})
             /\ \A i \in 1..Len(PrimaryPushed) :
                    \E j \in 1..Len(RootHeadings) :
                        /\ PrimaryPushed[i].importance
                               = 11 - ParseInt(SubSeq(RootHeadings[j].node.tagName, 2, 2))
                        /\ PrimaryPushed[i].content
                               = Trim(FollowingText(RootHeadings[j].following))
        ELSE IF Len(RootParagraphs) > 0
             THEN PrimaryPushed
                      = IF \E i \in 1..Len(RootParagraphs) :
                               Trim(TextContent(RootParagraphs[i].node)) # ""
                        THEN <<Section(None, Trim(ParagraphText(RootParagraphs)), 7)>>
                        ELSE <<>>
        ELSE PrimaryPushed
                 = IF Trim(TextContent(arg)) # ""
                   THEN <<Section(None, Trim(TextContent(arg)), 5)>>
                   ELSE <<>>
\* A root with a heading that is skipped and a paragraph: no section at all.
C20_Witness ==
    /\ pc = "done"
    /\ Len(RootHeadings) = 1
    /\ Len(RootParagraphs) = 1
    /\ ~HeadingHasSection(RootHeadings[1])
    /\ ret = <<>>

\* The lines of a list: "{index}. {item text}" for the li elements under
\* it, index the 1-based position of the item; withBlank tells whether an
\* item without text has a line too.
ItemLines(items, withBlank) ==
    LET kept == SelectSeq([i \in 1..Len(items) |-> i],
                          LAMBDA i : withBlank \/ Trim(TextContent(items[i].node)) # "")
    IN [k \in 1..Len(kept) |->
           ToString(kept[k]) \o ". " \o Trim(TextContent(items[kept[k]].node))]
RECURSIVE JoinLines(_)
JoinLines(lines) ==
    IF lines = <<>> THEN ""
    ELSE IF Len(lines) = 1 THEN lines[1]
    ELSE lines[1] \o "\n" \o JoinLines(Tail(lines))
\* One section of importance 6 per list, in document order; withBlank as
\* above, and a list without lines has a section only if withEmpty.
RECURSIVE ListSectionsExpected(_, _, _)
ListSectionsExpected(lists, withBlank, withEmpty) ==
    IF lists = <<>> THEN <<>>
    ELSE LET lines == ItemLines(QuerySelectorAll(lists[1].node, <<"li">>), withBlank)
         IN (IF withEmpty \/ lines # <<>>
             THEN <<Section(None, JoinLines(lines), 6)>> ELSE <<>>)
            \o ListSectionsExpected(Tail(lists), withBlank, withEmpty)

\* C21 as stated: after the primary sections come, in document order, one
\* section of importance 6 without heading for every ul/ol under the root,
\* its content one line '{index}. {item text}' per list item.
C21_EveryListEveryItem ==
    pc = "done" =>
        ret = PrimaryBranchSections(arg) \o ListSectionsExpected(RootLists, TRUE, TRUE)

\* C21 amended: after the primary sections, whichever branch pushed them,
\* come in document order one section of importance 6 without heading for
\* every ul/ol under the root that has an item with text, its content one
\* line '{index}. {item text}' per item with text, index the position of
\* the item among all items of the list; a list whose items have no text
\* has no section.
C21_ListsWithTextItems ==
    pc = "done" =>
        ret = PrimaryBranchSections(arg) \o ListSectionsExpected(RootLists, FALSE, FALSE)
\* A root with headings, and a list whose second item is blank.
C21_Witness ==
    /\ pc = "done"
    /\ Len(RootHeadings) > 0
    /\ Len(RootLists) = 1
    /\ Len(ret) = 2
    /\ ret[2] = Section(None, "1. a\n3. b", 6)

\* The element siblings that follow a heading, up to and not including the
\* first of them that is a heading.
BeforeNextHeading(following) ==
    LET stops == {i \in 1..Len(following) : following[i].tagName \in
                      {"H1", "H2", "H3", "H4", "H5", "H6"}}
    IN IF stops = {} THEN following
       ELSE SubSeq(following, 1, (CHOOSE i \in stops : \A j \in stops : i <= j) - 1)
RECURSIVE JoinSpaced(_)
JoinSpaced(texts) ==
    IF texts = <<>> THEN ""
    ELSE IF Len(texts) = 1 THEN texts[1]
    ELSE texts[1] \o " " \o JoinSpaced(Tail(texts))
\* The text of those siblings: the trimmed text of each that has any.
ContentOfHeading(h) ==
    LET siblings == BeforeNextHeading(h.following)
        texts == [i \in 1..Len(siblings) |-> Trim(TextContent(siblings[i]))]
    IN JoinSpaced(SelectSeq(texts, LAMBDA t : t # ""))
\* The heading and content of the section of each heading that has text or
\* following content, in document order.
RECURSIVE HeadingContents(_)
HeadingContents(headings) ==
    IF headings = <<>> THEN <<>>
    ELSE LET text == Trim(TextContent(headings[1].node))
             content == ContentOfHeading(headings[1])
         IN (IF text = "" /\ content = "" THEN <<>>
             ELSE <<[heading |-> IF text = "" THEN None ELSE Some(text),
                     content |-> content]>>)
            \o HeadingContents(Tail(headings))

\* C22: under a root with headings, each heading with text or following
\* content has exactly one section, whose content is the text of the element
\* siblings after the heading up to, and not including, the next sibling
\* that is a heading; a heading with neither has no section.
C22_ContentUpToNextHeading ==
    (pc = "done" /\ Len(RootHeadings) > 0) =>
        [i \in 1..Len(PrimaryPushed) |->
            [heading |-> PrimaryPushed[i].heading, content |-> PrimaryPushed[i].content]]
        = HeadingContents(RootHeadings)
\* Six headings in a row and a paragraph after the last: the first has no
\* content, the last has the paragraph; with a skipped heading beside them.
C22_Witness ==
    /\ pc = "done"
    /\ Len(RootHeadings) = 7
    /\ Len(PrimaryPushed) = 6
    /\ \E i, j \in 1..Len(ret) :
          /\ ret[i] = Section(Some("One"), "", 10)
          /\ ret[j] = Section(Some("Six"), "Last.", 5)

\* C23: a call of extractContent leaves the live document as it was: the
\* excluded elements (navigation, header, footer, ...) are removed from a
\* detached copy of the body only.
C23_LivePageUnchanged == [][doc' = doc]_vars
\* A returned extraction of a page without main-content container whose
\* body holds a NAV element: the copy processed differs from the body.
C23_Witness ==
    /\ pc = "done"
    /\ ~IsGmail(href)
    /\ FirstMatches(doc, contentSelectors, 1) = <<>>
    /\ \E i \in 1..Len(doc.body.kids) : doc.body.kids[i].tagName = "NAV"
    /\ TempDiv(doc).kids # doc.body.kids

\* C24: in every state of the content script overlayVisible is true if and
\* only if the overlay iframe exists (overlayFrame is not null) and its
\* display is not 'none'; so overlayVisible implies overlayFrame non-null,
\* and after a failed creation overlayVisible is false and overlayFrame null.
C24_VisibleIffFrameShown ==
    pc = "script" =>
        (overlayVisible <=> (overlayFrame # None /\ overlayFrame[1].display # "none"))
\* The overlay was created and then hidden.
C24_Witness ==
    /\ pc = "script"
    /\ overlayFrame # None
    /\ overlayFrame[1].display = "none"
    /\ ~overlayVisible

\* The steps of handleChatGPTRequest: a request that awaits the API call,
\* a request that ends at once (sendMessage rejects), and the settling of
\* an awaited call.
ChatAwaits == inflight' = inflight + 1
ChatEndsAtOnce ==
    /\ inflight' = inflight
    /\ posted' # posted /\ posted' # <<>>
    /\ posted'[1] = Processing(TRUE)
ChatSettled == inflight' = inflight - 1
IframeInDocument == overlayFrame # None /\ overlayFrame[1].attached
IsChatResponse(m) == m.action = "chatGptResponse"

InPosted(m) == \E i \in 1..Len(posted) : posted[i] = m

\* The content script with its asynchronous completions: every fetch
\* settles (the browser ends a request with a response or a network error),
\* and the event loop dispatches every message posted to the overlay.
SpecLive == Spec /\ SF_vars(ChatSettles) /\ WF_vars(Deliver)

\* C25 as stated: a request posts processing=true first; what ends it,
\* the settling of the API call or its rejection, posts exactly one
\* chatGptResponse and then processing=false; so every processing=true is
\* eventually followed by processing=false.
C25_ResponseThenProcessingFalse ==
    /\ [][ /\ ChatAwaits => posted' = <<Processing(TRUE)>>
           /\ ChatEndsAtOnce =>
                 /\ Len(posted') = 3
                 /\ IsChatResponse(posted'[2]) /\ posted'[3] = Processing(FALSE)
           /\ ChatSettled =>
                 /\ Len(posted') = 2
                 /\ IsChatResponse(posted'[1]) /\ posted'[2] = Processing(FALSE)
         ]_vars
    /\ InPosted(Processing(TRUE)) ~> InPosted(Processing(FALSE))

\* C25 amended: the same, for a call that settles while the overlay iframe
\* is in the document; when the iframe has left the document nothing is
\* posted for the settled call.  Every processing=true is eventually
\* followed by processing=false unless the iframe leaves the document.
C25_ResponseThenProcessingFalseWhileAttached ==
    /\ [][ /\ ChatAwaits => posted' = <<Processing(TRUE)>>
           /\ ChatEndsAtOnce =>
                 /\ Len(posted') = 3
                 /\ IsChatResponse(posted'[2]) /\ posted'[3] = Processing(FALSE)
           /\ (ChatSettled /\ IframeInDocument) =>
                 /\ Len(posted') = 2
                 /\ IsChatResponse(posted'[1]) /\ posted'[2] = Processing(FALSE)
           /\ (ChatSettled /\ ~IframeInDocument) => posted' = <<>>
         ]_vars
    /\ InPosted(Processing(TRUE)) ~> (InPosted(Processing(FALSE)) \/ ~IframeInDocument)
\* An API call that failed has settled: the error text and then
\* processing=false are in flight to the overlay.
C25_Witness ==
    /\ pc = "script"
    /\ posted = <<ChatResponseMessage("Error: Failed to fetch", TRUE), Processing(FALSE)>>

\* C26: while a key passed to saveApiKey is on its way to the storage (and
\* no later saveApiKey call has replaced it), the key held in memory is that
\* key, whenever the callback of the constructor's storage read runs.
C26_SavedKeyStays ==
    (pc = "script" /\ pendingSaves # <<>>) =>
        apiKey = Some(pendingSaves[Len(pendingSaves)])

(***************************************************************************)
(* handleIframeMessage on one window "message" event.  arg is the event:   *)
(* its source window and the action its data names; ret tells that the     *)
(* handler returned at its source check.                                   *)
(***************************************************************************)
\* overlayFrame.contentWindow: null once the iframe has left the document.
ContentWindow(frame) == IF frame[1].attached THEN "overlay window" ELSE "null"

\* A mutation of the source check: only the existence of the iframe is
\* tested.
AcceptedFromAnyWindow(source) == overlayFrame # None

\* The negation of the early return's condition (line 87).
Accepted(source) == overlayFrame # None /\ source = ContentWindow(overlayFrame)

MessageEvents ==
    [source : {"overlay window", "page window"},
     action : {"closeOverlay", "getPageText", "sendToChatGPT", "saveApiKey",
               "checkApiKey", "refreshPageContent", "addSelectedText"}]

\* The script some time after its start: the overlay never opened, open
\* or hidden, in the document or gone with a removed body; page content
\* cached or not; a key saved or none.
InitMessage ==
    /\ doc \in ScriptDocs
    /\ href \in ScriptUrls
    /\ arg \in MessageEvents
    /\ ret = <<>>
    /\ pc = "script"
    /\ overlayFrame \in
          {None} \cup {Some([display |-> d, attached |-> a]) :
                          d \in {"", "block", "none"},
                          a \in IF doc.hasBody THEN BOOLEAN ELSE {FALSE}}
    /\ overlayVisible = (overlayFrame # None /\ overlayFrame[1].display # "none")
    /\ extractedPageContent \in {None, Some(scriptExtractContent(DocOther, href))}
    /\ lastProcessedUrl = href
    /\ posted = <<>>
    /\ apiKey \in {None, Some("sk-new")}
    /\ storedKey = apiKey
    /\ loadPending = FALSE
    /\ pendingSaves = <<>>
    /\ inflight = 0
    /\ uncaught = None

handleIframeMessage ==
    /\ Idle
    /\ IF ~Accepted(arg.source)
       THEN /\ ret' = "return"
            /\ UNCHANGED <<doc, href, arg, pc, scriptVars>>
       ELSE \/ arg.action = "closeOverlay" /\ CloseOverlay
            \/ arg.action = "getPageText" /\ GetPageText
            \/ arg.action = "sendToChatGPT" /\ SendToChatGPT
            \/ arg.action = "saveApiKey" /\ SaveApiKey
            \/ arg.action = "checkApiKey" /\ CheckApiKey
            \/ arg.action = "refreshPageContent" /\ RefreshPageContent
            \/ arg.action = "addSelectedText" /\ UNCHANGED vars

NextMessage == handleIframeMessage

SpecMessage == InitMessage /\ [][NextMessage]_vars

\* C27: a message whose source is not the contentWindow of the overlay
\* iframe, or that arrives while there is no overlay iframe, changes
\* nothing, whatever its action: overlayVisible, overlayFrame, the cached
\* content and the API key in memory and in the storage stay as they are,
\* nothing is posted and no API request or storage write is started.
C27_ForeignMessageChangesNothing ==
    [][ (overlayFrame = None \/ arg.source # ContentWindow(overlayFrame)) =>
            UNCHANGED <<overlayVisible, overlayFrame, extractedPageContent, apiKey,
                        storedKey, posted, inflight, pendingSaves>> ]_vars
\* A saveApiKey message of the page's own window was handled while the
\* overlay was open.
C27_Witness ==
    /\ ret = "return"
    /\ arg = [source |-> "page window", action |-> "saveApiKey"]
    /\ overlayFrame # None /\ overlayFrame[1].attached
    /\ overlayVisible
    /\ apiKey = None /\ pendingSaves = <<>> /\ posted = <<>>

\* C28: a sendToChatGPT request handled while no API key is held in memory
\* issues no HTTP request, and is answered, between processing=true and
\* processing=false, with one chatGptResponse with success=false whose
\* response text starts with 'Error: '.
C28_NoKeyReportedAsFailure ==
    [][ (Accepted(arg.source) /\ arg.action = "sendToChatGPT"
            /\ (apiKey = None \/ apiKey = Some(""))) =>
            /\ inflight' = inflight
            /\ Len(posted') = 3
            /\ posted'[1] = Processing(TRUE)
            /\ posted'[2].action = "chatGptResponse"
            /\ posted'[2].success = FALSE
            /\ IsPrefix("Error: ", posted'[2].response)
            /\ posted'[3] = Processing(FALSE) ]_vars
C28_Witness ==
    /\ arg = [source |-> "overlay window", action |-> "sendToChatGPT"]
    /\ apiKey = None
    /\ inflight = 0
    /\ posted = <<Processing(TRUE),
                  ChatResponseMessage("Error: " \o noKeyMessage, FALSE),
                  Processing(FALSE)>>

\* The chatGptResponse messages on their way to the overlay.
ChatResponsesPosted == {i \in 1..Len(posted) : posted[i].action = "chatGptResponse"}

\* C29: while an API key is held in memory every outcome of the API call
\* is posted as a chatGptResponse with success=true, the error branch of
\* handleChatGPTRequest is never taken, and the response is the assistant's
\* answer or, for a network failure, a non-OK status or a malformed
\* response, a string that begins with 'Error: '.
C29_EveryOutcomeIsATextWithSuccess ==
    (pc = "script" /\ Truthy(apiKey)) =>
        \A i \in ChatResponsesPosted :
            /\ posted[i].success = TRUE
            /\ posted[i].response = "Answer." \/ IsPrefix("Error: ", posted[i].response)

\* C30: in every pageTextExtracted message of the non-error path the
\* wordCount is the one of the extraction that produced the text: the text
\* states that count in its "PAGE CONTENT (n words):" line, and the message
\* carries the same n, whatever getPageText, refreshPageContent, URL polls
\* and page mutations came before.
C30_WordCountOfTheTextSent ==
    \A i \in ServedFromCache :
        Includes(posted[i].text,
                 "\nPAGE CONTENT (" \o ToString(posted[i].wordCount) \o " words):\n")

====
